---------------------------- MODULE Spec2Model ----------------------------
(***************************************************************************)
(* State-machine model of the HTTP file-transfer gateway of the M5PaperS3  *)
(* firmware (src/main/hal/http_file_server.cpp): the single-file transfer  *)
(* engine, the multipart decoder and the directory operator, over a model  *)
(* of the storage calls the code makes on the FAT volume at /sdcard.       *)
(*                                                                         *)
(* Bytes and characters are one-character strings; a std::string or a      *)
(* buffer is a sequence of them.  Positions are 0-based as in C++ and npos *)
(* is -1.                                                                  *)
(***************************************************************************)
EXTENDS Integers, Sequences, FiniteSets, TLC

VARIABLES
    fs,               \* the storage tree: entry of the volume -> node
    pc,               \* position of the running handler ("idle": none)
    req,              \* the request being served (what the transport offers)
    nreq,             \* requests served so far in this behaviour
    rx,               \* body bytes the transport has handed over so far
    remaining,        \* int remaining
    total_written,    \* size_t total_written / int total_received
    fp,               \* FILE* fp / current_file: path of the open file, or NULL
    accumulated_data, \* std::string accumulated_data
    current_filename, \* std::string current_filename
    in_file_content,  \* bool in_file_content
    file_count,       \* int file_count
    json_files,       \* the "files" array built in json_result
    resp,             \* the response sent (NoResp while none)
    sent,             \* chunks sent by httpd_resp_send_chunk, in order
    rpos,             \* read offset of the file being downloaded
    hist,             \* history: what the run has gone through
    _server,          \* httpd_handle_t _server: nullptr, or the running server
    _port,            \* uint16_t _port
    _state,           \* AppWifiConfig: State _state
    _need_destroy,    \* AppWifiConfig: bool _need_destroy
    app               \* the AppWifiConfig instance: "none" before onCreate,
                      \* "open" from onCreate on, "destroyed" after onDestroy

vars == <<fs, pc, req, nreq, rx, remaining, total_written, fp, accumulated_data,
          current_filename, in_file_content, file_count, json_files, resp,
          sent, rpos, hist, _server, _port, _state, _need_destroy, app>>

\* The fields of the app and its place in its life cycle.
AppVars == <<_state, _need_destroy, app>>

-----------------------------------------------------------------------------
(* Bounds of the model *)

\* Capacity of the transfer buffer (FILE_BUFFER_SIZE, 16384 in the source),
\* scaled down.
FILE_BUFFER_SIZE == 32

\* Width of int and size_t (32 in the build), scaled down with the buffer.
INT_BITS == 9

-----------------------------------------------------------------------------
(* Integers of the build *)

RECURSIVE Pow2(_)
Pow2(n) == IF n = 0 THEN 1 ELSE 2 * Pow2(n - 1)

INT_MAX == Pow2(INT_BITS - 1) - 1
SIZE_MAX == Pow2(INT_BITS) - 1

\* (int)x for a size_t x: the value modulo 2^INT_BITS, read as signed.
ToInt(x) == LET m == x % Pow2(INT_BITS)
            IN  IF m > INT_MAX THEN m - Pow2(INT_BITS) ELSE m

Min(a, b) == IF a < b THEN a ELSE b

-----------------------------------------------------------------------------
(* std::string *)

npos == -1

\* s.substr(pos, n), 0-based, n clamped to the end of s.
Substr(s, pos, n) == SubSeq(s, pos + 1, Min(pos + n, Len(s)))

\* s.substr(pos)
SubstrFrom(s, pos) == SubSeq(s, pos + 1, Len(s))

\* s.find(pat, from): the first position >= from where pat occurs, or npos.
Find(s, pat, from) ==
    LET hits == {i \in from..(Len(s) - Len(pat)) :
                    \A j \in 1..Len(pat) : s[i + j] = pat[j]}
    IN  IF hits = {} THEN npos
        ELSE CHOOSE i \in hits : \A k \in hits : i <= k

\* s.rfind(c): the last position of character c, or npos.
RFind(s, c) ==
    LET hits == {i \in 0..(Len(s) - 1) : s[i + 1] = c}
    IN  IF hits = {} THEN npos
        ELSE CHOOSE i \in hits : \A k \in hits : i >= k

IsPrefix(p, s) == Len(p) <= Len(s) /\ SubSeq(s, 1, Len(p)) = p

\* The bytes i -> pattern, a body of n bytes whose order is observable.
Pattern(n) == [i \in 1..n |-> <<"A", "B", "C">>[(i % 3) + 1]]

-----------------------------------------------------------------------------
(* Storage: the calls the handlers make reach, through the virtual file    *)
(* system of the build, the FAT volume mounted at SD_ROOT.  fs maps each    *)
(* existing entry of the volume, named by its normal form, to its node.    *)

\* SD卡根路径
SD_ROOT == <<"/", "s", "d", "c", "a", "r", "d">>

Slash == <<"/">>

DirNode == [dir |-> TRUE, data |-> <<>>]
FileNode(d) == [dir |-> FALSE, data |-> d]

\* The segments of a path string, empty ones (doubled slashes) dropped.
RECURSIVE SplitPath(_)
SplitPath(p) ==
    IF p = <<>> THEN <<>>
    ELSE LET cut == Find(p, Slash, 0)
         IN  IF cut = npos THEN <<p>>
             ELSE IF cut = 0 THEN SplitPath(SubstrFrom(p, 1))
             ELSE <<Substr(p, 0, cut)>> \o SplitPath(SubstrFrom(p, cut + 1))

RECURSIVE JoinPath(_)
JoinPath(segs) ==
    IF segs = <<>> THEN <<>>
    ELSE Slash \o Head(segs) \o JoinPath(Tail(segs))

\* A path that names nothing.
Invalid == <<>>

\* The path lies under the mount point: it is SD_ROOT, or SD_ROOT and a
\* '/' begin it.  No other path is routed to the volume.
Routed(p) ==
    /\ IsPrefix(SD_ROOT, p)
    /\ Len(p) > Len(SD_ROOT) => p[Len(SD_ROOT) + 1] = "/"

\* The entry a path string names: the mount point, then the segments that
\* follow it.  The volume has no "." and ".." entries (it is built without
\* relative paths), so a path with such a segment names nothing.
Norm(p) ==
    IF ~Routed(p) THEN Invalid
    ELSE LET segs == SplitPath(SubstrFrom(p, Len(SD_ROOT)))
         IN  IF \E i \in 1..Len(segs) : segs[i] \in {<<".">>, <<".", ".">>}
             THEN Invalid
             ELSE SD_ROOT \o JoinPath(segs)

\* The directory holding a normalised path.
Parent(n) == LET cut == RFind(n, "/")
             IN  IF cut <= 0 THEN Slash ELSE Substr(n, 0, cut)

EndsWithSlash(p) == Len(p) > 0 /\ p[Len(p)] = "/"

Exists(t, p) == Norm(p) \in DOMAIN t
IsDir(t, p) == Exists(t, p) /\ t[Norm(p)].dir
IsFile(t, p) == Exists(t, p) /\ ~t[Norm(p)].dir

\* The entry of the volume that path names below the mount point.
Entry(path) == SD_ROOT \o path

\* t with the entry n set to node / removed.
Put(t, n, node) == [q \in DOMAIN t \cup {n} |-> IF q = n THEN node ELSE t[q]]
Drop(t, n) == [q \in DOMAIN t \ {n} |-> t[q]]

\* The entries directly inside directory n.
Children(t, n) == {q \in DOMAIN t : q # n /\ Parent(q) = n}

\* The mount point cannot be removed.
Removable(n) == n # SD_ROOT

\* fopen(p, "wb") succeeds on a path inside an existing directory that is
\* not itself a directory; it creates the file or truncates it.
CanOpenWrite(t, p) ==
    /\ p # <<>>
    /\ ~EndsWithSlash(p)
    /\ Norm(p) # Invalid
    /\ IsDir(t, Parent(Norm(p)))
    /\ ~IsDir(t, p)
FopenWrite(t, p) == Put(t, Norm(p), FileNode(<<>>))

\* fopen(p, "rb")
CanOpenRead(t, p) == IsFile(t, p) /\ ~EndsWithSlash(p)

\* fwrite(data, 1, n, f): the bytes are appended to the open file.
Fwrite(t, f, data) == Put(t, f, FileNode(t[f].data \o data))

\* remove(p): unlinks a regular file; 0 on success.
CanRemove(t, p) == IsFile(t, p)
Remove(t, p) == IF CanRemove(t, p) THEN Drop(t, Norm(p)) ELSE t

\* A storage whose rmdir removes nothing.
RmdirKeeps(t, p) == t

\* A storage whose rmdir takes any directory.
RmdirAnything(t, p) == IsDir(t, p)

\* rmdir(p): removes an empty directory.
CanRmdir(t, p) ==
    IsDir(t, p) /\ Children(t, Norm(p)) = {} /\ Removable(Norm(p))
Rmdir(t, p) == IF CanRmdir(t, p) THEN Drop(t, Norm(p)) ELSE t

\* mkdir(p, 0755): 0, or -1 with errno EEXIST / ENOENT.
MkdirResult(t, p) ==
    IF Exists(t, p) THEN "EEXIST"
    ELSE IF Norm(p) # Invalid /\ IsDir(t, Parent(Norm(p))) THEN "OK"
    ELSE "ENOENT"
Mkdir(t, p) == IF MkdirResult(t, p) = "OK" THEN Put(t, Norm(p), DirNode) ELSE t


-----------------------------------------------------------------------------
(* State shared by the handlers *)

NULL == <<>>
\* A response: the status set, and the fields of the JSON object sent.
\* kind is "error" (sendErrorResponse), "json" (sendJsonResponse) or
\* "stream" (a chunked download).
\* headers are the header fields set with httpd_resp_set_hdr, type the
\* content type (the server's default until httpd_resp_set_type), items the
\* entries of a directory listing.
Response(kind, code, json_code, message, path, size, files, count) ==
    [kind |-> kind, code |-> code, json_code |-> json_code,
     message |-> message, path |-> path, size |-> size,
     files |-> files, count |-> count,
     headers |-> {}, type |-> "text/html", items |-> {}]

\* The three header fields of setCorsHeaders.
CorsHeaders ==
    {<<"Access-Control-Allow-Origin", "*">>,
     <<"Access-Control-Allow-Methods", "GET, POST, DELETE, OPTIONS">>,
     <<"Access-Control-Allow-Headers", "Content-Type">>}

\* A server that sets no header field.
NoCorsHeaders(r) == r

\* setCorsHeaders(req)
setCorsHeaders(r) == [r EXCEPT !.headers = @ \cup CorsHeaders]

\* sendJsonResponse(req, json)
sendJsonResponse(r) == [setCorsHeaders(r) EXCEPT !.type = "application/json"]

\* A server that leaves the status line alone.
StatusAlwaysOk(code) == 200

\* The status line after sendErrorResponse: set for 404, 400 and 500, and
\* "200 OK" otherwise.
StatusOf(code) == IF code \in {404, 400, 500} THEN code ELSE 200

NoResp == Response("none", 0, 0, "", <<>>, 0, <<>>, 0)
NoReq == [kind |-> "none", path |-> <<>>, body |-> <<>>, content_len |-> 0]

\* sendErrorResponse(req, code, message): the status line is set for 404,
\* 400 and 500 and stays "200 OK" otherwise.
sendErrorResponse(code, message) ==
    sendJsonResponse(
        Response("error", StatusOf(code), code, message, <<>>, 0, <<>>, 0))

\* sendJsonResponse with {"success":true,"path":...,"size":...}
sendJsonSize(path, size) ==
    sendJsonResponse(Response("json", 200, 0, "", path, size, <<>>, 0))

\* sendJsonResponse with {"success":true,"path":...}
sendJsonPath(path) ==
    sendJsonResponse(Response("json", 200, 0, "", path, 0, <<>>, 0))

\* sendJsonResponse with {"success":true,"files":[...],"count":...}
sendJsonFiles(files, count) ==
    sendJsonResponse(Response("json", 200, 0, "", <<>>, 0, files, count))

\* A server that sends every file as application/octet-stream.
OctetStreamOnly(path) == "application/octet-stream"

\* The content type of a download: by the text of the path from its last
\* '.', "application/octet-stream" when there is none or none of the table.
ContentTypeOf(path) ==
    LET dot_pos == RFind(path, ".")
        ext == IF dot_pos = npos THEN <<>> ELSE SubstrFrom(path, dot_pos)
    IN  CASE ext = <<".", "t", "x", "t">> -> "text/plain"
          [] ext \in {<<".", "h", "t", "m", "l">>, <<".", "h", "t", "m">>}
                -> "text/html"
          [] ext = <<".", "c", "s", "s">> -> "text/css"
          [] ext = <<".", "j", "s">> -> "application/javascript"
          [] ext = <<".", "j", "s", "o", "n">> -> "application/json"
          [] ext = <<".", "p", "n", "g">> -> "image/png"
          [] ext \in {<<".", "j", "p", "g">>, <<".", "j", "p", "e", "g">>}
                -> "image/jpeg"
          [] ext = <<".", "g", "i", "f">> -> "image/gif"
          [] ext = <<".", "e", "p", "u", "b">> -> "application/epub+zip"
          [] ext = <<".", "p", "d", "f">> -> "application/pdf"
          [] OTHER -> "application/octet-stream"

\* The header fields of a download, set before its first chunk: the CORS
\* fields, the content type and Content-Disposition with the file name.
StreamResponse(path) ==
    [setCorsHeaders(Response("stream", 200, 0, "", <<>>, 0, <<>>, 0))
        EXCEPT !.type = ContentTypeOf(path),
               !.path = SubstrFrom(path, RFind(path, "/") + 1)]

\* What a run has gone through, for the properties to refer to.
NoHist == [rerr |-> FALSE,     \* a receive ended in an error or in zero bytes
           wfail |-> FALSE,    \* an fwrite stored fewer bytes than asked
           sfail |-> FALSE,    \* httpd_resp_send_chunk failed
           chunks |-> 0,       \* receives that returned data
           touched |-> {},     \* paths handed to the storage calls
           fs0 |-> <<>>,       \* the tree when the request arrived
           prev |-> NoReq,     \* the request served before this one
           prevResp |-> NoResp,
           prevClean |-> FALSE,
           short |-> FALSE,    \* the upload ended below its declared length
           open_at_end |-> FALSE, \* a part's file was open when the loop ended
           closed_files |-> <<>>, \* names of the files closed before that
           first |-> 0,        \* size of the first receive of one or two
           prevFs0 |-> <<>>,   \* the tree when the request before arrived
           waits |-> 0,        \* receive timeouts in a row, even or odd
           call |-> "none",    \* the last call of start / stop / isRunning
           was |-> <<>>,       \* _server and _port when it was made
           up |-> FALSE,       \* start has returned true, and no stop since
           steady |-> TRUE,    \* the decoder's handles and phase have agreed
           handles |-> 0,      \* files the decoder has open
           given |-> <<>>,     \* bytes handed to fwrite for the open file
           cut |-> <<>>,       \* the data the last receive dropped bytes from
           term |-> FALSE,     \* the terminal boundary has been found
           recv |-> 1,         \* the last result of httpd_req_recv, 1 for
                               \* any count of bytes and before the first
           seen |-> {},        \* the trees a recursive create or delete
                               \* went through
           recursed |-> FALSE, \* removeDirectoryRecursive has been called
           failed |-> {}]      \* names of the files an fwrite has failed for

nullptr == 0

\* A handler that returns with its file as it was.
LeftOpen(f) == f

\* fclose(fp): the handle is closed.
fclose(f) == NULL

\* esp_http_server.h: the socket timed out
HTTPD_SOCK_ERR_TIMEOUT == -3

\* What httpd_req_recv returns when it hands over no bytes: 0 when the peer
\* has closed, HTTPD_SOCK_ERR_FAIL, or HTTPD_SOCK_ERR_TIMEOUT.
RecvFailures == {0, -1, HTTPD_SOCK_ERR_TIMEOUT}

\* A loop that takes a timeout for an error.
NeverRetried(received) == FALSE

\* if (received == HTTPD_SOCK_ERR_TIMEOUT) continue;
Retried(received) == received = HTTPD_SOCK_ERR_TIMEOUT

\* bool isRunning() const { return _server != nullptr; }
isRunning == _server # nullptr

\* The request is over: the handler has returned and its locals are gone.
Return(r) ==
    /\ UNCHANGED <<_server, _port, AppVars>>
    /\ pc' = "idle"
    /\ resp' = r
    /\ nreq' = nreq + 1
    /\ rx' = 0
    /\ remaining' = 0
    /\ total_written' = 0

\* A handler begins on request r.
Arrive(r) ==
    /\ isRunning
    /\ UNCHANGED <<_server, _port, AppVars>>
    /\ pc = "idle"
    /\ req' = r

StartHist(r) ==
    [NoHist EXCEPT !.fs0 = fs, !.prev = req, !.prevResp = resp,
                   !.prevFs0 = hist.fs0,
                   !.prevClean = ~(hist.rerr \/ hist.wfail \/ hist.sfail)]

\* A handler that takes every path parameter as given.
PathNeverMissing(path) == FALSE

\* path.empty(): the query has no path parameter, or an empty one.
PathMissing(path) == path = <<>>

\* A handler that hands the parameter to the storage as it came.
FullPathBare(path) == path

\* SD_ROOT + path
FullPath(path) == SD_ROOT \o path

-----------------------------------------------------------------------------
(* POST /api/file?path=...   HttpFileServer::handlePostFile *)

PostRequest(path, body, clen) ==
    [kind |-> "post", path |-> path, body |-> body, content_len |-> clen]

\* The handler up to its receive loop: the parameter check and fopen(.., "wb").
handlePostFile(path, body, clen) ==
    LET full_path == FullPath(path)
        r == PostRequest(path, body, clen)
    IN
    /\ Arrive(r)
    /\ IF PathMissing(path)
       THEN /\ Return(sendErrorResponse(400, "Path parameter required"))
            /\ hist' = StartHist(r)
            /\ UNCHANGED <<fs, fp>>
       ELSE IF ~CanOpenWrite(fs, full_path)
       THEN /\ Return(sendErrorResponse(500, "Failed to create file"))
            /\ hist' = [StartHist(r) EXCEPT !.touched = {full_path}]
            /\ UNCHANGED <<fs, fp>>
       ELSE /\ fs' = FopenWrite(fs, full_path)
            /\ fp' = Norm(full_path)
            /\ remaining' = ToInt(clen)
            /\ total_written' = 0
            /\ rx' = 0
            /\ hist' = [StartHist(r) EXCEPT !.touched = {full_path}]
            /\ pc' = "post_loop"
            /\ UNCHANGED <<resp, nreq>>
    /\ UNCHANGED <<accumulated_data, current_filename, in_file_content,
                   file_count, json_files, sent, rpos>>

\* A loop that asks for a whole buffer at every receive.
WholeBuffer == ToInt(FILE_BUFFER_SIZE)

\* int to_read = std::min(remaining, (int)FILE_BUFFER_SIZE)
PostToRead == Min(remaining, ToInt(FILE_BUFFER_SIZE))

\* The bytes the transport can still hand over.
Available == Len(req.body) - rx

PostFrame == <<req, nreq, resp, accumulated_data, current_filename,
               in_file_content, file_count, json_files, sent, rpos, fp,
               _server, _port, AppVars>>

\* One turn of the loop in which httpd_req_recv returns k bytes and fwrite
\* stores them all.
PostRecvData(k) ==
    /\ pc = "post_loop" /\ remaining > 0
    /\ k \in 1..Min(PostToRead, Available)
    /\ fs' = Fwrite(fs, fp, SubSeq(req.body, rx + 1, rx + k))
    /\ rx' = rx + k
    /\ total_written' = total_written + k
    /\ remaining' = remaining - k
    /\ hist' = [hist EXCEPT !.chunks = @ + 1, !.waits = 0, !.recv = 1]
    /\ pc' = "post_loop"
    /\ UNCHANGED PostFrame

\* One turn in which fwrite stores only w of the k bytes received: break.
PostRecvShortWrite(k, w) ==
    /\ pc = "post_loop" /\ remaining > 0
    /\ k \in 1..Min(PostToRead, Available)
    /\ w \in {0, k - 1}
    /\ fs' = Fwrite(fs, fp, SubSeq(req.body, rx + 1, rx + w))
    /\ rx' = rx + k
    /\ hist' = [hist EXCEPT !.chunks = @ + 1, !.wfail = TRUE, !.waits = 0,
                            !.recv = 1]
    /\ pc' = "post_tail"
    /\ UNCHANGED <<total_written, remaining>>
    /\ UNCHANGED PostFrame

\* httpd_req_recv returns HTTPD_SOCK_ERR_TIMEOUT: continue.
PostRecvTimeout ==
    /\ pc = "post_loop" /\ remaining > 0
    /\ \E received \in RecvFailures :
          /\ received <= 0 /\ Retried(received)
          /\ hist' = [hist EXCEPT !.waits = 1 - @, !.recv = received]
    /\ UNCHANGED <<fs, pc, rx, total_written, remaining>>
    /\ UNCHANGED PostFrame

\* httpd_req_recv returns 0 or another error: break.
PostRecvError ==
    /\ pc = "post_loop" /\ remaining > 0
    /\ \E received \in RecvFailures :
          /\ received <= 0 /\ ~Retried(received)
          /\ hist' = [hist EXCEPT !.rerr = TRUE, !.waits = 0,
                                  !.recv = received]
    /\ pc' = "post_tail"
    /\ UNCHANGED <<fs, rx, total_written, remaining>>
    /\ UNCHANGED PostFrame

\* After the loop: fclose, then remove the incomplete file and answer 500,
\* or answer with the size written.
PostTail ==
    /\ \/ pc = "post_tail"
       \/ pc = "post_loop" /\ remaining <= 0
    /\ fp' = fclose(fp)
    /\ IF remaining > 0
       THEN /\ fs' = Remove(fs, FullPath(req.path))
            /\ Return(sendErrorResponse(500, "File upload incomplete"))
       ELSE /\ fs' = fs
            /\ Return(sendJsonSize(req.path, total_written))
    /\ hist' = [hist EXCEPT !.short = total_written < req.content_len]
    /\ UNCHANGED <<req, accumulated_data, current_filename, in_file_content,
                   file_count, json_files, sent, rpos>>

-----------------------------------------------------------------------------
(* GET /api/file?path=...   HttpFileServer::handleGetFile *)

GetRequest(path) ==
    [kind |-> "get", path |-> path, body |-> <<>>, content_len |-> 0]

\* The handler up to its send loop: the parameter check and fopen(.., "rb").
handleGetFile(path) ==
    LET full_path == FullPath(path)
        r == GetRequest(path)
    IN
    /\ Arrive(r)
    /\ sent' = <<>>
    /\ rpos' = 0
    /\ IF PathMissing(path)
       THEN /\ Return(sendErrorResponse(400, "Path parameter required"))
            /\ hist' = StartHist(r)
            /\ UNCHANGED fp
       ELSE IF ~CanOpenRead(fs, full_path)
       THEN /\ Return(sendErrorResponse(404, "File not found"))
            /\ hist' = [StartHist(r) EXCEPT !.touched = {full_path}]
            /\ UNCHANGED fp
       ELSE /\ fp' = Norm(full_path)
            /\ hist' = [StartHist(r) EXCEPT !.touched = {full_path}]
            /\ pc' = "get_loop"
            /\ resp' = StreamResponse(path)
            /\ UNCHANGED <<nreq, rx, remaining, total_written>>
    /\ UNCHANGED <<fs, accumulated_data, current_filename, in_file_content,
                   file_count, json_files>>

\* A loop that reads all that is left of the file at once.
ReadToEnd == Len(fs[fp].data) - rpos

\* fread(buffer, 1, FILE_BUFFER_SIZE, fp)
ReadBytes == Min(FILE_BUFFER_SIZE, Len(fs[fp].data) - rpos)

GetFrame == <<fs, req, nreq, rx, remaining, total_written, accumulated_data,
              current_filename, in_file_content, file_count, json_files,
              resp, fp, _server, _port, AppVars>>

\* One turn of the loop: a block is read and httpd_resp_send_chunk sends it.
GetSendChunk ==
    /\ pc = "get_loop" /\ ReadBytes > 0
    /\ sent' = Append(sent, SubSeq(fs[fp].data, rpos + 1, rpos + ReadBytes))
    /\ rpos' = rpos + ReadBytes
    /\ UNCHANGED <<pc, hist>>
    /\ UNCHANGED GetFrame

\* One turn in which httpd_resp_send_chunk fails: break.
GetSendFails ==
    /\ pc = "get_loop" /\ ReadBytes > 0
    /\ rpos' = rpos + ReadBytes
    /\ hist' = [hist EXCEPT !.sfail = TRUE]
    /\ pc' = "get_tail"
    /\ UNCHANGED sent
    /\ UNCHANGED GetFrame

\* After the loop: the zero-length chunk, then fclose.
GetTail ==
    /\ \/ pc = "get_tail"
       \/ pc = "get_loop" /\ ReadBytes = 0
    /\ sent' = Append(sent, <<>>)
    /\ fp' = fclose(fp)
    /\ Return(resp)
    /\ UNCHANGED <<fs, req, accumulated_data, current_filename,
                   in_file_content, file_count, json_files, rpos, hist>>

\* The data chunks sent, joined.
RECURSIVE Concat(_)
Concat(chunks) == IF chunks = <<>> THEN <<>>
                  ELSE Head(chunks) \o Concat(Tail(chunks))

-----------------------------------------------------------------------------
(* The single-file specification: an upload, then a download *)

Str_f == <<"/", "f">>
Str_up_e == <<"/", ".", ".", "/", "e">>

\* Values of the path parameter.
PostPaths == {<<>>, Str_f, Str_up_e}

\* Bodies a client sends: empty, short, longer than the buffer, and as long
\* as the first length an int cannot hold.
PostBodies == {<<>>, <<"B", "A">>,
               Pattern(FILE_BUFFER_SIZE + 2), Pattern(INT_MAX + 1)}

\* Declared content lengths for a body: its length, or one byte more than
\* the client goes on to send.
PostLengths(body) == {Len(body), Min(Len(body) + 1, SIZE_MAX)}

\* Trees the card may hold when the server starts.
BareTree == SD_ROOT :> DirNode
PostTrees == {BareTree,
              BareTree @@ (Norm(Entry(Str_f)) :> FileNode(<<"o", "l", "d">>))}

IdleLocals ==
    /\ rx = 0
    /\ remaining = 0
    /\ total_written = 0
    /\ fp = NULL
    /\ accumulated_data = <<>>
    /\ current_filename = <<>>
    /\ in_file_content = FALSE
    /\ file_count = 0
    /\ json_files = <<>>
    /\ resp = NoResp
    /\ sent = <<>>
    /\ rpos = 0
    /\ hist = NoHist
    /\ req = NoReq
    /\ nreq = 0
    /\ pc = "idle"

\* No AppWifiConfig has been created: State _state = STATE_SCANNING and
\* bool _need_destroy = false are the initializers of the class.
NoApp ==
    /\ _state = "STATE_SCANNING"
    /\ _need_destroy = FALSE
    /\ app = "none"

\* The app has started the server on port 80 (handleConnectedTouch).
Started ==
    /\ _server = 1
    /\ _port = 80
    /\ _state = "STATE_SERVER_RUNNING"
    /\ _need_destroy = FALSE
    /\ app = "open"

InitPost ==
    /\ fs \in PostTrees
    /\ IdleLocals
    /\ Started

NextPost ==
    \/ /\ nreq = 0
       /\ \E path \in PostPaths, body \in PostBodies :
            \E clen \in PostLengths(body) : handlePostFile(path, body, clen)
    \/ \E k \in 1..FILE_BUFFER_SIZE : PostRecvData(k)
    \/ \E k \in 1..FILE_BUFFER_SIZE : \E w \in 0..FILE_BUFFER_SIZE :
            PostRecvShortWrite(k, w)
    \/ PostRecvTimeout
    \/ PostRecvError
    \/ PostTail
    \/ /\ nreq = 1
       /\ \E path \in PostPaths : handleGetFile(path)
    \/ GetSendChunk
    \/ GetSendFails
    \/ GetTail

SpecPost == InitPost /\ [][NextPost]_vars


-----------------------------------------------------------------------------
(* Recursive create   HttpFileServer::createDirectoryRecursive *)

\* A creation that takes an existing entry for a failure.
MkdirFailedOnExisting(result) == result # "OK"

\* mkdir(...) != 0 && errno != EEXIST
MkdirFailed(result) == result \notin {"OK", "EEXIST"}

\* The while loop: every prefix of path that ends before a '/' found from
\* position pos + 1 on, and is longer than SD_ROOT, is created if stat fails.
\* seen: the trees the storage went through on the way.
RECURSIVE CreateDirLoop(_, _, _)

\* The loop goes on in the tree made by a mkdir that went well.
CreateDirNext(made, path, next) ==
    [CreateDirLoop(made, path, next) EXCEPT !.seen = @ \cup {made}]

\* One turn: current = path.substr(0, next).
CreateDirTurn(t, path, next, current) ==
    IF next = npos THEN [fs |-> t, ok |-> TRUE, seen |-> {}]
    ELSE IF Len(current) > Len(SD_ROOT) /\ ~Exists(t, current)
    THEN IF MkdirFailed(MkdirResult(t, current))
         THEN [fs |-> t, ok |-> FALSE, seen |-> {}]
         ELSE CreateDirNext(Mkdir(t, current), path, next)
    ELSE CreateDirLoop(t, path, next)

\* next = path.find('/', pos + 1)
CreateDirAt(t, path, next) ==
    CreateDirTurn(t, path, next, Substr(path, 0, next))

CreateDirLoop(t, path, pos) ==
    CreateDirAt(t, path, Find(path, Slash, pos + 1))

\* After the loop: the whole path is created if stat fails for it.
CreateDirLast(r, path) ==
    IF ~r.ok THEN r
    ELSE IF Exists(r.fs, path) THEN r
    ELSE IF MkdirFailed(MkdirResult(r.fs, path))
         THEN [fs |-> r.fs, ok |-> FALSE, seen |-> r.seen]
    ELSE [fs |-> Mkdir(r.fs, path), ok |-> TRUE,
          seen |-> r.seen \cup {Mkdir(r.fs, path)}]

\* The tree it leaves and the value it returns.
createDirectoryRecursive(t, path) ==
    CreateDirLast(CreateDirLoop(t, path, 0), path)

-----------------------------------------------------------------------------
(* POST /api/upload-batch?dir=...   HttpFileServer::handleUploadBatch *)

CRLF == <<"\r", "\n">>
CRLFCRLF == CRLF \o CRLF
FilenameKey == <<"f", "i", "l", "e", "n", "a", "m", "e", "=", "\"">>
Quote == <<"\"">>

\* Value of a hexadecimal digit, -1 for any other character.
HexVal(c) ==
    CASE c = "0" -> 0 [] c = "1" -> 1 [] c = "2" -> 2 [] c = "3" -> 3
      [] c = "4" -> 4 [] c = "5" -> 5 [] c = "6" -> 6 [] c = "7" -> 7
      [] c = "8" -> 8 [] c = "9" -> 9
      [] c \in {"A", "a"} -> 10 [] c \in {"B", "b"} -> 11
      [] c \in {"C", "c"} -> 12 [] c \in {"D", "d"} -> 13
      [] c \in {"E", "e"} -> 14 [] c \in {"F", "f"} -> 15
      [] OTHER -> -1

\* strtol(hex, nullptr, 16) of two characters: the digits up to the first
\* character that is none.
Strtol16(h1, h2) ==
    IF HexVal(h1) < 0 THEN 0
    ELSE IF HexVal(h2) < 0 THEN HexVal(h1)
    ELSE 16 * HexVal(h1) + HexVal(h2)

\* (char)code, for the codes the requests of the model use.
CharOf(code) ==
    CASE code = 47 -> "/" [] code = 46 -> "." [] code = 65 -> "A"
      [] code = 97 -> "a" [] code = 98 -> "b" [] code = 115 -> "s"
      [] OTHER -> "?"

\* URL解码文件名: %XY becomes one character when two characters follow it
\* before the last one.
RECURSIVE PercentDecode(_, _)
PercentDecode(s, i) ==
    IF i >= Len(s) THEN <<>>
    ELSE IF s[i + 1] = "%" /\ i + 2 < Len(s)
         THEN <<CharOf(Strtol16(s[i + 2], s[i + 3]))>> \o PercentDecode(s, i + 3)
         ELSE <<s[i + 1]>> \o PercentDecode(s, i + 1)

\* std::string boundary = "--" + the text after "boundary="
Boundary(param) == <<"-", "-">> \o param
BoundaryEnd(param) == Boundary(param) \o <<"-", "-">>

\* base_path, with a '/' added unless it ends in one, then the file name
FilePath(base_path, filename) ==
    (IF base_path[Len(base_path)] # "/" THEN base_path \o Slash ELSE base_path)
        \o filename

\* The locals of the decoding loop, with the tree: what one pass reads and
\* writes.  brk: the pass has reached a break; touched: the paths it has
\* handed to storage calls; handles: the files opened and not yet closed;
\* steady: the handles and the phase have agreed after every turn so far;
\* given: the bytes handed to fwrite for the file that is open; cut: the
\* accumulated data before the bytes that stood in front of no boundary
\* were dropped from it, in a sequence of its own, when that happened;
\* term: the terminal boundary has been found; failed: the names of the
\* files an fwrite has stored nothing for.
Decoder(acc, in_file, cur_file, cur_name, count, files, t, wfail, done) ==
    [acc |-> acc, in_file |-> in_file, cur_file |-> cur_file,
     cur_name |-> cur_name, count |-> count, files |-> files, fs |-> t,
     wfail |-> wfail, brk |-> done, touched |-> {},
     handles |-> IF cur_file = NULL THEN 0 ELSE 1, steady |-> TRUE,
     given |-> <<>>, cut |-> <<>>, term |-> FALSE, failed |-> {}]

\* fwrite(data, 1, n, current_file), its result not looked at: with wok the
\* bytes are stored, without it none is.
DecoderWrite(d, data, wok) ==
    IF d.cur_file = NULL \/ Len(data) = 0 THEN d
    ELSE IF wok THEN [d EXCEPT !.fs = Fwrite(d.fs, d.cur_file, data),
                               !.given = @ \o data]
    ELSE [d EXCEPT !.wfail = TRUE, !.given = @ \o data,
                   !.failed = @ \cup {d.cur_name}]

\* A decoder that keeps nothing when no boundary is in sight.
SeekRetainNothing(acc, boundary) == <<>>

\* Retained when no boundary is in sight: the last boundary.length() bytes.
SeekRetain(acc, boundary) ==
    IF Len(acc) > Len(boundary)
    THEN SubstrFrom(acc, Len(acc) - Len(boundary))
    ELSE acc

\* A decoder that takes every part for a file.
EveryPartNamed(headers) == TRUE

\* headers.find("filename=\"") and the closing quote after it are found.
HasFilename(headers) ==
    /\ Find(headers, FilenameKey, 0) # npos
    /\ Find(headers, Quote, Find(headers, FilenameKey, 0) + 10) # npos

\* fopen(file_path, "wb") in the tree made by the directory creation.
OpenFile(d, decoded, file_path, paths, made) ==
    IF CanOpenWrite(made, file_path)
    THEN [d EXCEPT !.cur_name = decoded, !.fs = FopenWrite(made, file_path),
                   !.cur_file = Norm(file_path), !.in_file = TRUE,
                   !.touched = @ \cup paths,
                   !.handles = @ + 1, !.steady = @ /\ d.handles = 0,
                   !.given = <<>>]
    ELSE [d EXCEPT !.cur_name = decoded, !.fs = made,
                   !.touched = @ \cup paths]

\* The part headers have been cut out: take the file name, create the
\* parent directories and open the file.
OpenPart(d, headers, base_path) ==
    LET filename_pos == Find(headers, FilenameKey, 0)
        name_from == filename_pos + 10
        filename_end == Find(headers, Quote, name_from)
        decoded == PercentDecode(
                       Substr(headers, name_from, filename_end - name_from), 0)
        file_path == FilePath(base_path, decoded)
        last_slash == RFind(file_path, "/")
        paths == {file_path} \cup (IF last_slash # npos
                                    THEN {Substr(file_path, 0, last_slash)}
                                    ELSE {})
    IN  IF ~HasFilename(headers) THEN d
        ELSE OpenFile(d, decoded, file_path, paths,
                      IF last_slash # npos
                      THEN createDirectoryRecursive(
                               d.fs, Substr(file_path, 0, last_slash)).fs
                      ELSE d.fs)

\* The branch taken while no file is being received.
SeekStep(d, boundary, boundary_end, base_path) ==
    LET boundary_pos == Find(d.acc, boundary, 0)
        header_end == Find(d.acc, CRLFCRLF, boundary_pos)
        headers == Substr(d.acc, boundary_pos, header_end - boundary_pos)
    IN  IF boundary_pos = npos
        THEN [d EXCEPT !.acc = SeekRetain(d.acc, boundary), !.brk = TRUE,
                       !.cut = IF Len(d.acc) > Len(boundary)
                               THEN <<d.acc>> ELSE @]
        ELSE IF Substr(d.acc, boundary_pos, Len(boundary_end)) = boundary_end
        THEN [d EXCEPT !.acc = <<>>, !.brk = TRUE, !.term = TRUE]
        ELSE IF header_end = npos
        THEN [d EXCEPT !.brk = TRUE]
        ELSE [OpenPart(d, headers, base_path)
                EXCEPT !.acc = SubstrFrom(d.acc, header_end + 4)]

\* A decoder that withholds nothing of the content.
SafeLenWhole(acc, boundary) == Len(acc)

\* A decoder that withholds the length of the boundary only.
SafeLenBoundaryOnly(acc, boundary) ==
    IF Len(acc) > Len(boundary) THEN Len(acc) - Len(boundary) ELSE 0

\* Bytes of the file content that may be written while no boundary is in
\* sight: all but the last boundary.length() + 2.
SafeLen(acc, boundary) ==
    IF Len(acc) > Len(boundary) + 2 THEN Len(acc) - Len(boundary) - 2 ELSE 0

\* A decoder that takes the content up to the boundary itself.
ContentEndAtBoundary(acc, next_boundary) == next_boundary

\* The content ends at the boundary, or two bytes before it when "\r\n"
\* stands there.
ContentEnd(acc, next_boundary) ==
    IF next_boundary >= 2 /\ acc[next_boundary - 1] = "\r"
                          /\ acc[next_boundary] = "\n"
    THEN next_boundary - 2
    ELSE next_boundary

\* A decoder that records the file and leaves it open.
RecordWithoutClose(d) ==
    IF d.cur_file = NULL THEN d
    ELSE [d EXCEPT !.files = Append(@, d.cur_name), !.count = @ + 1]

\* The file is closed and recorded.
CloseAndRecord(d) ==
    IF d.cur_file = NULL THEN d
    ELSE [d EXCEPT !.cur_file = NULL, !.files = Append(@, d.cur_name),
                   !.count = @ + 1, !.handles = @ - 1, !.given = <<>>]

\* The branch taken while a file is being received.
FileStep(d, boundary, wok) ==
    LET next_boundary == Find(d.acc, boundary, 0)
        content_end == ContentEnd(d.acc, next_boundary)
        safe_len == SafeLen(d.acc, boundary)
    IN  IF next_boundary # npos
        THEN [CloseAndRecord(DecoderWrite(d, Substr(d.acc, 0, content_end), wok))
                EXCEPT !.in_file = FALSE,
                       !.acc = SubstrFrom(d.acc, next_boundary)]
        ELSE IF d.cur_file # NULL /\ safe_len > 0
        THEN [DecoderWrite(d, Substr(d.acc, 0, safe_len), wok)
                EXCEPT !.acc = SubstrFrom(d.acc, safe_len), !.brk = TRUE]
        ELSE [d EXCEPT !.brk = TRUE]

\* while (true) { ... }: the accumulated data is worked through until a
\* branch breaks.
\* After a turn of the loop: at most one file is open, and one is open
\* exactly in the phase that receives a file's content.
Observed(d) ==
    [d EXCEPT !.steady = /\ @
                         /\ d.handles <= 1
                         /\ d.in_file <=> d.handles = 1
                         /\ d.in_file <=> d.cur_file # NULL]

RECURSIVE Decode(_, _, _, _, _)
Decode(d, boundary, boundary_end, base_path, wok) ==
    IF d.brk THEN d
    ELSE Decode(Observed(IF d.in_file THEN FileStep(d, boundary, wok)
                         ELSE SeekStep(d, boundary, boundary_end, base_path)),
                boundary, boundary_end, base_path, wok)


\* A part of a multipart body: the file name as its headers spell it, the
\* file it names, and its bytes.
Part(name, file, payload) ==
    [named |-> TRUE, name |-> name, file |-> file, payload |-> payload]

\* A part that is a form field: its headers carry no file name.
FieldPart(payload) ==
    [named |-> FALSE, name |-> <<>>, file |-> <<>>, payload |-> payload]

\* name="f"
FieldHeader == <<"n", "a", "m", "e", "=", "\"", "f", "\"">>

\* --boundary CRLF headers CRLF CRLF payload CRLF
PartBytes(part, param) ==
    Boundary(param) \o CRLF
        \o (IF part.named THEN FilenameKey \o part.name \o Quote
                         ELSE FieldHeader)
        \o CRLFCRLF \o part.payload \o CRLF

RECURSIVE PartsBytes(_, _)
PartsBytes(parts, param) ==
    IF parts = <<>> THEN <<>>
    ELSE PartBytes(Head(parts), param) \o PartsBytes(Tail(parts), param)

\* The body a client sends for these parts; closed: with its terminal
\* boundary.
BuildBody(parts, param, closed) ==
    PartsBytes(parts, param)
        \o (IF closed THEN BoundaryEnd(param) \o CRLF ELSE <<>>)

\* boundary=
BoundaryKey ==
    <<"b", "o", "u", "n", "d", "a", "r", "y", "=">>

\* multipart/form-data; boundary=
MultipartKey ==
    <<"m", "u", "l", "t", "i", "p", "a", "r", "t", "/", "f", "o", "r", "m",
      "-", "d", "a", "t", "a", ";", " ", "b", "o", "u", "n", "d", "a", "r",
      "y", "=">>

\* text/plain
TextPlain ==
    <<"t", "e", "x", "t", "/", "p", "l", "a", "i", "n">>

\* ; charset=utf-8
CharsetParam ==
    <<";", " ", "c", "h", "a", "r", "s", "e", "t", "=", "u", "t", "f", "-",
      "8">>

\* ctype: the Content-Type header is absent ("none"), has no boundary=
\* ("plain"), or gives the boundary param ("multipart"); content_type: the
\* value of the header; param: the boundary the client built the body with.
BatchRequest(dir, param, parts, closed) ==
    [kind |-> "batch", path |-> dir, body |-> BuildBody(parts, param, closed),
     content_len |-> Len(BuildBody(parts, param, closed)),
     ctype |-> "multipart", content_type |-> MultipartKey \o param,
     param |-> param, parts |-> parts, closed |-> closed]

\* The same upload with the boundary parameter as a quoted string.
WithQuotedBoundary(r) ==
    [r EXCEPT !.content_type = MultipartKey \o Quote \o r.param \o Quote]

\* The same upload with another parameter after the boundary parameter.
WithCharset(r) ==
    [r EXCEPT !.content_type = MultipartKey \o r.param \o CharsetParam]

\* The same upload with a header line of n bytes in front of the headers of
\* its first part.
WithLongHeader(r, n) ==
    LET line == Boundary(r.param) \o CRLF
        body == line \o [i \in 1..n |-> "h"] \o CRLF
                     \o SubstrFrom(r.body, Len(line))
    IN  [r EXCEPT !.body = body, !.content_len = Len(body)]

\* The same upload with a terminal boundary after its first part already:
\* the other parts and a second terminal boundary follow it.
EndedAfterFirst(r) ==
    LET body == PartBytes(Head(r.parts), r.param)
                    \o BoundaryEnd(r.param) \o CRLF
                    \o BuildBody(Tail(r.parts), r.param, TRUE)
    IN  [r EXCEPT !.body = body, !.content_len = Len(body), !.closed = FALSE]

\* The same upload with another Content-Type.
WithContentType(r, ctype) ==
    [r EXCEPT !.ctype = ctype, !.closed = FALSE,
              !.content_type = IF ctype = "plain" THEN TextPlain ELSE <<>>]

\* std::string base_path = SD_ROOT + target_dir, target_dir "/" by default
BasePath(dir) == SD_ROOT \o (IF dir = <<>> THEN Slash ELSE dir)

\* size_t buf_size = FILE_BUFFER_SIZE * 2
BufSize == FILE_BUFFER_SIZE * 2

\* httpd_req_get_hdr_value_str(req, "Content-Type", ...) == ESP_OK
HasContentType(r) == r.ctype # "none"

\* A handler that takes every Content-Type for a multipart one.
AnyContentType(r) == TRUE

\* strstr(content_type, "boundary=") != nullptr
HasBoundary(r) == Find(r.content_type, BoundaryKey, 0) # npos

\* boundary_start += 9: the text of the header after "boundary=".
BoundaryStart(content_type) ==
    SubstrFrom(content_type, Find(content_type, BoundaryKey, 0) + 9)

\* The handler up to its receive loop.
handleUploadBatch(r) ==
    /\ Arrive(r)
    /\ file_count' = 0
    /\ json_files' = <<>>
    /\ accumulated_data' = <<>>
    /\ current_filename' = <<>>
    /\ fp' = NULL
    /\ in_file_content' = FALSE
    /\ hist' = StartHist(r)
    /\ IF ~HasContentType(r)
       THEN Return(sendErrorResponse(400, "Content-Type header required"))
       ELSE IF ~HasBoundary(r)
       THEN Return(sendErrorResponse(400, "Boundary not found in Content-Type"))
       ELSE /\ remaining' = ToInt(r.content_len)
            /\ total_written' = 0
            /\ rx' = 0
            /\ pc' = "batch_loop"
            /\ UNCHANGED <<resp, nreq>>
    /\ UNCHANGED <<fs, sent, rpos>>

\* int to_read = std::min(remaining, (int)buf_size)
BatchToRead == Min(remaining, ToInt(BufSize))

\* A decoder that forgets what it held when more arrives.
OnlyNewData(acc, data) == data

\* accumulated_data.append(buffer, received)
append(acc, data) == acc \o data

\* The locals after httpd_req_recv has returned k bytes and the decoding
\* loop has worked through them.
AfterChunk(k, wok) ==
    Decode([Decoder(append(accumulated_data, SubSeq(req.body, rx + 1, rx + k)),
                    in_file_content, fp, current_filename, file_count,
                    json_files, fs, FALSE, FALSE)
                EXCEPT !.handles = hist.handles, !.given = hist.given,
                       !.term = hist.term],
           Boundary(BoundaryStart(req.content_type)),
           BoundaryEnd(BoundaryStart(req.content_type)),
           BasePath(req.path), wok)

BatchTake(k, d) ==
    /\ remaining' = remaining - k
    /\ total_written' = total_written + k
    /\ rx' = rx + k
    /\ accumulated_data' = d.acc
    /\ in_file_content' = d.in_file
    /\ fp' = d.cur_file
    /\ current_filename' = d.cur_name
    /\ file_count' = d.count
    /\ json_files' = d.files
    /\ fs' = d.fs
    /\ hist' = [hist EXCEPT !.chunks = Min(@ + 1, 3),
                            !.waits = 0,
                            !.recv = 1,
                            !.steady = @ /\ d.steady,
                            !.handles = d.handles,
                            !.given = d.given,
                            !.cut = d.cut,
                            !.term = d.term,
                            !.wfail = @ \/ d.wfail,
                            !.failed = @ \cup d.failed,
                            !.touched = @ \cup d.touched,
                            !.first =
                                IF hist.chunks = 0 THEN k
                                ELSE IF hist.chunks = 1 /\ remaining = k THEN @
                                ELSE 0]
    /\ UNCHANGED <<pc, req, nreq, resp, sent, rpos, _server, _port, AppVars>>

\* One turn of the loop in which httpd_req_recv returns k bytes.
BatchRecvData(k) ==
    /\ pc = "batch_loop" /\ remaining > 0
    /\ k \in 1..Min(BatchToRead, Available)
    /\ \E d \in {AfterChunk(k, TRUE)} : BatchTake(k, d)

\* One turn in which the storage takes none of the bytes written.
BatchRecvWriteFails(k) ==
    /\ pc = "batch_loop" /\ remaining > 0
    /\ k \in 1..Min(BatchToRead, Available)
    /\ \E d \in {AfterChunk(k, FALSE)} : d.wfail /\ BatchTake(k, d)

\* httpd_req_recv returns HTTPD_SOCK_ERR_TIMEOUT: continue.
BatchRecvTimeout ==
    /\ pc = "batch_loop" /\ remaining > 0
    /\ \E received \in RecvFailures :
          /\ received <= 0 /\ Retried(received)
          /\ hist' = [hist EXCEPT !.waits = 1 - @, !.recv = received]
    /\ UNCHANGED <<fs, pc, req, nreq, rx, remaining, total_written, fp,
                   accumulated_data, current_filename, in_file_content,
                   file_count, json_files, resp, sent, rpos, _server, _port, AppVars>>

\* httpd_req_recv returns 0 or another error: break.
BatchRecvError ==
    /\ pc = "batch_loop" /\ remaining > 0
    /\ \E received \in RecvFailures :
          /\ received <= 0 /\ ~Retried(received)
          /\ hist' = [hist EXCEPT !.rerr = TRUE, !.waits = 0,
                                  !.recv = received]
    /\ pc' = "batch_tail"
    /\ UNCHANGED <<fs, req, nreq, rx, remaining, total_written, fp,
                   accumulated_data, current_filename, in_file_content,
                   file_count, json_files, resp, sent, rpos, _server, _port, AppVars>>

\* After the loop (关闭任何未关闭的文件): a file still open is closed and
\* its name is added to the result; then the result is sent.
BatchTail ==
    /\ \/ pc = "batch_tail"
       \/ pc = "batch_loop" /\ remaining <= 0
    /\ fp' = fclose(fp)
    /\ LET last == [Decoder(accumulated_data, in_file_content, fp,
                            current_filename, file_count, json_files, fs,
                            FALSE, TRUE)
                        EXCEPT !.handles = hist.handles]
           out == CloseAndRecord(last)
       IN  /\ Return(sendJsonFiles(out.files, out.count))
           /\ file_count' = out.count
           /\ json_files' = out.files
           /\ hist' = [hist EXCEPT !.open_at_end = fp # NULL,
                                   !.closed_files = json_files,
                                   !.handles = out.handles,
                                   !.given = <<>>,
                                   !.cut = <<>>]
    /\ UNCHANGED <<fs, req, accumulated_data, current_filename,
                   in_file_content, sent, rpos>>

-----------------------------------------------------------------------------
(* The batch specification: one multipart upload *)

Name_a == <<"a">>
Name_sb == <<"s", "/", "b">>
Name_s2Fb == <<"s", "%", "2", "F", "b">>
Name_up_e == <<".", ".", "/", "e">>
Name_ds == <<"d", "/">>
Dir_kx == <<"/", "k", "/", "x">>
Param_X == <<"X">>

\* a = "A"
Parts_one == <<Part(Name_a, Name_a, <<"A">>)>>
\* a = "A", s/b = "BB"
Parts_two == <<Part(Name_a, Name_a, <<"A">>),
               Part(Name_sb, Name_sb, <<"B", "B">>)>>
\* the same name twice
Parts_same == <<Part(Name_a, Name_a, <<"A">>), Part(Name_a, Name_a, <<"B">>)>>
\* a percent-encoded name, and a payload that begins like a delimiter
Parts_enc == <<Part(Name_s2Fb, Name_sb, <<"\r", "\n", "-">>)>>
\* an empty file
Parts_empty == <<Part(Name_a, Name_a, <<>>)>>
\* a name that climbs out of the target directory
Parts_up == <<Part(Name_up_e, Name_up_e, <<"A">>)>>
\* a form field, a name that ends in a slash, then a = "A"
Parts_skip == <<FieldPart(<<"Z">>), Part(Name_ds, Name_ds, <<"Y">>),
                Part(Name_a, Name_a, <<"A">>)>>
\* a name that climbs out, then s/b = "BB"
Parts_up_then == <<Part(Name_up_e, Name_up_e, <<"Z">>),
                   Part(Name_sb, Name_sb, <<"B", "B">>)>>

\* The uploads of the model; those built with FALSE end before their
\* terminal boundary.  closed: the body is the parts, then the terminal
\* boundary, and nothing else.
BatchRequests ==
    {BatchRequest(Dir_kx, Param_X, Parts_two, TRUE),
     BatchRequest(Dir_kx, Param_X, Parts_one, TRUE),
     BatchRequest(<<>>, Param_X, Parts_same, TRUE),
     BatchRequest(<<>>, Param_X, Parts_enc, TRUE),
     BatchRequest(<<>>, Param_X, Parts_empty, TRUE),
     BatchRequest(<<>>, Param_X, Parts_up, TRUE),
     BatchRequest(<<>>, Param_X, Parts_skip, TRUE),
     BatchRequest(Dir_kx, Param_X, Parts_up_then, TRUE),
     WithContentType(BatchRequest(<<>>, Param_X, Parts_one, TRUE), "none"),
     WithContentType(BatchRequest(<<>>, Param_X, Parts_one, TRUE), "plain"),
     BatchRequest(Dir_kx, Param_X, Parts_one, FALSE),
     BatchRequest(<<>>, Param_X, Parts_two, FALSE)}

InitBatch ==
    /\ fs = BareTree
    /\ IdleLocals
    /\ Started

NextBatch ==
    \/ /\ nreq = 0
       /\ \E r \in BatchRequests : handleUploadBatch(r)
    \/ \E k \in 1..BufSize : BatchRecvData(k)
    \/ \E k \in 1..BufSize : BatchRecvWriteFails(k)
    \/ BatchRecvTimeout
    \/ BatchRecvError
    \/ BatchTail

SpecBatch == InitBatch /\ [][NextBatch]_vars

\* Uploads whose bodies are not what a client should send: part headers
\* longer than two receive buffers, and parts after a terminal boundary.
OddRequests ==
    {WithLongHeader(BatchRequest(<<>>, Param_X, Parts_one, TRUE), 2 * BufSize),
     EndedAfterFirst(BatchRequest(<<>>, Param_X, Parts_two, TRUE))}

NextOdd ==
    \/ /\ nreq = 0
       /\ \E r \in OddRequests : handleUploadBatch(r)
    \/ \E k \in 1..BufSize : BatchRecvData(k)
    \/ \E k \in 1..BufSize : BatchRecvWriteFails(k)
    \/ BatchRecvTimeout
    \/ BatchRecvError
    \/ BatchTail

SpecOdd == InitBatch /\ [][NextOdd]_vars

\* One upload under three spellings of its Content-Type header: the bare
\* boundary parameter, the parameter as a quoted string, and a charset
\* parameter after it.
HeaderRequests ==
    {BatchRequest(<<>>, Param_X, Parts_one, TRUE),
     WithQuotedBoundary(BatchRequest(<<>>, Param_X, Parts_one, TRUE)),
     WithCharset(BatchRequest(<<>>, Param_X, Parts_one, TRUE))}

NextHeader ==
    \/ /\ nreq = 0
       /\ \E r \in HeaderRequests : handleUploadBatch(r)
    \/ \E k \in 1..BufSize : BatchRecvData(k)
    \/ \E k \in 1..BufSize : BatchRecvWriteFails(k)
    \/ BatchRecvTimeout
    \/ BatchRecvError
    \/ BatchTail

SpecHeader == InitBatch /\ [][NextHeader]_vars

-----------------------------------------------------------------------------
(* Properties of the single-file engine *)

\* The handler of a request of this kind has returned.
Returned(kind) == pc = "idle" /\ req.kind = kind /\ resp.kind # "none"

\* C2 (truncation safety): when a single-file upload returns having received
\* and written fewer bytes than the declared content length, the target path
\* does not exist in storage and the response is an error, never a success.
C2_TruncatedUploadLeavesNothing ==
    (Returned("post") /\ hist.short)
        => /\ ~Exists(fs, Entry(req.path))
           /\ resp.kind = "error"

\* The upload before this request was fully delivered: its path could be
\* opened for writing, the client declared the length of its body, no
\* receive failed and no write fell short.
PrevFullyDelivered ==
    /\ hist.prev.kind = "post"
    /\ hist.prev.path # <<>>
    /\ CanOpenWrite(hist.prevFs0, Entry(hist.prev.path))
    /\ hist.prev.content_len = Len(hist.prev.body)
    /\ hist.prevClean

\* C3 (round trip): after a byte sequence B has been fully delivered by a
\* single-file POST to path P, the response reports size = len(B), and a
\* following GET of P sends data chunks whose concatenation is exactly B.
C3_RoundTrip ==
    (Returned("get") /\ PrevFullyDelivered /\ req.path = hist.prev.path
            /\ ~hist.sfail)
        => /\ hist.prevResp.kind = "json"
           /\ hist.prevResp.size = Len(hist.prev.body)
           /\ resp.kind = "stream"
           /\ Concat(sent) = hist.prev.body

\* A normalised path lies inside the SD-card root.
InsideSdRoot(n) == n = SD_ROOT \/ IsPrefix(SD_ROOT \o Slash, n)

-----------------------------------------------------------------------------
(* Properties of the multipart decoder *)

\* The whole declared body was received.
FullyDelivered == ~hist.rerr

\* What the handler leaves when the whole body arrives in one receive: the
\* decoding loop over the body, then the code after the loop.
OneChunk(r, t) ==
    CloseAndRecord(
        Decode(Decoder(r.body, FALSE, NULL, <<>>, 0, <<>>, t, FALSE, FALSE),
               Boundary(r.param), BoundaryEnd(r.param), BasePath(r.path), TRUE))

\* Positions of the body where a boundary marker begins.
BoundaryStarts(r) ==
    {p \in 0..(Len(r.body) - Len(Boundary(r.param))) :
        Substr(r.body, p, Len(Boundary(r.param))) = Boundary(r.param)}

\* The body came in two receives.
InTwoChunks == hist.chunks = 2 /\ FullyDelivered /\ ~hist.wfail

\* The cut between the two receives fell inside a boundary marker.
CutInsideBoundary ==
    \E p \in BoundaryStarts(req) :
        p < hist.first /\ hist.first < p + Len(Boundary(req.param))

\* C1 (split-boundary correctness): a well-formed multipart body received in
\* two chunks, wherever the cut falls, yields the same files list, the same
\* count and the same stored file contents as the body received in one chunk.
C1_TwoChunksEqualOneChunk ==
    (Returned("batch") /\ req.closed /\ InTwoChunks)
        => /\ resp.files = OneChunk(req, hist.fs0).files
           /\ resp.count = OneChunk(req, hist.fs0).count
           /\ fs = OneChunk(req, hist.fs0).fs

C1_Witness ==
    /\ Returned("batch") /\ req.closed /\ InTwoChunks
    /\ CutInsideBoundary
    /\ resp.count = Len(req.parts)
    /\ Len(req.body) - hist.first < Len(BoundaryEnd(req.param)) + Len(CRLF)

\* Where the part's file belongs: target directory, then the file name.
PartPath(r, i) == Norm(SD_ROOT \o r.path \o Slash \o r.parts[i].file)

\* The last part of the body that names the same file as part i.
LastOf(r, i) ==
    CHOOSE j \in i..Len(r.parts) :
        /\ r.parts[j].file = r.parts[i].file
        /\ \A l \in (j + 1)..Len(r.parts) : r.parts[l].file # r.parts[i].file

\* Part i's payload is what storage holds at its path.
StoredCorrectly(t, r, i) ==
    /\ IsFile(t, PartPath(r, i))
    /\ t[PartPath(r, i)].data = r.parts[i].payload

\* C4 (batch count): for the well-formed parts of a fully delivered body, the
\* count of the response equals the number of files whose complete payload is
\* present and correct in storage, and equals the length of the files list.
C4_CountEqualsStoredFiles ==
    (Returned("batch") /\ req.closed /\ FullyDelivered)
        => /\ resp.count = Len(resp.files)
           /\ resp.count =
                Cardinality({i \in 1..Len(req.parts) : StoredCorrectly(fs, req, i)})

\* The directories above an entry, up to the mount point.
RECURSIVE Ancestors(_)
Ancestors(n) ==
    IF n \in {SD_ROOT, Slash, Invalid} THEN {}
    ELSE {Parent(n)} \cup Ancestors(Parent(n))

\* Part i carries a file name, and the volume can hold a file of that name
\* in the target directory.
Holdable(r, i) ==
    /\ r.parts[i].named
    /\ PartPath(r, i) # Invalid
    /\ ~EndsWithSlash(r.parts[i].file)

\* C5 (batch placement): in a batch upload to directory D every part named F,
\* D/F being a name the volume can hold, is stored at D/F under directories
\* created for it, the stored bytes are
\* the payload without the CRLF before the next boundary, and the response
\* lists the file names in the order of the parts.
C5_PartsStoredUnderTarget ==
    (Returned("batch") /\ req.closed /\ FullyDelivered /\ ~hist.wfail
        /\ \A i \in 1..Len(req.parts) : Holdable(req, i))
        => /\ \A i \in 1..Len(req.parts) :
                /\ IsFile(fs, PartPath(req, i))
                /\ fs[PartPath(req, i)].data = req.parts[LastOf(req, i)].payload
                /\ \A a \in Ancestors(PartPath(req, i)) : IsDir(fs, a)
           /\ resp.files = [i \in 1..Len(req.parts) |-> req.parts[i].file]
           /\ resp.count = Len(req.parts)

C5_Witness ==
    /\ Returned("batch") /\ FullyDelivered /\ ~hist.wfail
    /\ req.path = Dir_kx /\ req.parts = Parts_two /\ req.closed
    /\ ~IsDir(hist.fs0, SD_ROOT \o Dir_kx)
    /\ IsFile(fs, SD_ROOT \o Dir_kx \o Slash \o Name_sb)
    /\ fs[Norm(SD_ROOT \o Dir_kx \o Slash \o Name_sb)].data = <<"B", "B">>
    /\ resp.files = <<Name_a, Name_sb>>

\* C6 (open file at the end of the loop): when the receive loop ends while a
\* part's file is still open, the file is closed and its name is not
\* recorded: files and count are those of the parts closed at their boundary.
C6_OpenFileNotRecorded ==
    (Returned("batch") /\ hist.open_at_end)
        => /\ fp = NULL
           /\ resp.files = hist.closed_files
           /\ resp.count = Len(hist.closed_files)

-----------------------------------------------------------------------------
(* Directory operations: handleDeleteFile, handleMkdir, handleRmdir,        *)
(* removeDirectoryRecursive                                                 *)

\* A request of the directory handlers.  bad: the entries whose remove or
\* rmdir the storage refuses while the request is served.
DirRequest(kind, path, bad) ==
    [kind |-> kind, path |-> path, body |-> <<>>, content_len |-> 0,
     bad |-> bad]

\* What a bool function returned.
ReturnedBool(ok) ==
    Response("return", 0, 0, IF ok THEN "true" ELSE "false", <<>>, 0, <<>>, 0)

Success(r) == r.kind = "json" \/ (r.kind = "return" /\ r.message = "true")

DirLocalsUnchanged ==
    UNCHANGED <<fp, accumulated_data, current_filename, in_file_content,
                file_count, json_files, sent, rpos>>

\* entry->d_name of an entry
DName(n) == SubstrFrom(n, RFind(n, "/") + 1)

\* An entry and all that lies below it.
Subtree(t, n) == {q \in DOMAIN t : q = n \/ IsPrefix(n \o Slash, q)}

\* DELETE /api/file?path=...
handleDeleteFile(path) ==
    LET full_path == FullPath(path)
        r == DirRequest("delete", path, {})
    IN  /\ Arrive(r)
        /\ DirLocalsUnchanged
        /\ IF PathMissing(path)
           THEN /\ Return(sendErrorResponse(400, "Path parameter required"))
                /\ hist' = StartHist(r)
                /\ UNCHANGED fs
           ELSE /\ hist' = [StartHist(r) EXCEPT !.touched = {full_path}]
                /\ IF ~Exists(fs, full_path)
                   THEN /\ Return(sendErrorResponse(404, "File not found"))
                        /\ UNCHANGED fs
                   ELSE IF IsDir(fs, full_path)
                   THEN IF CanRmdir(fs, full_path)
                        THEN /\ fs' = Rmdir(fs, full_path)
                             /\ Return(sendJsonPath(path))
                        ELSE /\ Return(sendErrorResponse(500, "Failed to delete"))
                             /\ UNCHANGED fs
                   ELSE /\ fs' = Remove(fs, full_path)
                        /\ Return(sendJsonPath(path))

\* POST /api/mkdir?path=...
handleMkdir(path) ==
    LET full_path == FullPath(path)
        r == DirRequest("mkdir", path, {})
    IN  /\ Arrive(r)
        /\ DirLocalsUnchanged
        /\ IF PathMissing(path)
           THEN /\ Return(sendErrorResponse(400, "Path parameter required"))
                /\ hist' = StartHist(r)
                /\ UNCHANGED fs
           ELSE /\ hist' = [StartHist(r) EXCEPT !.touched = {full_path}]
                /\ fs' = Mkdir(fs, full_path)
                /\ IF MkdirFailed(MkdirResult(fs, full_path))
                   THEN Return(sendErrorResponse(500, "Failed to create directory"))
                   ELSE Return(sendJsonPath(path))

\* The call createDirectoryRecursive(SD_ROOT + path).
createDirectoryRecursiveCall(path) ==
    LET full_path == FullPath(path)
        r == DirRequest("create", path, {})
        out == createDirectoryRecursive(fs, full_path)
    IN  /\ Arrive(r)
        /\ DirLocalsUnchanged
        /\ hist' = [StartHist(r) EXCEPT !.touched = {full_path},
                                        !.seen = out.seen]
        /\ fs' = out.fs
        /\ Return(ReturnedBool(out.ok))

\* removeDirectoryRecursive(path): the tree it leaves and the value it
\* returns.  RemoveEntries is its readdir loop over the entries of path.
RECURSIVE removeDirectoryRecursive(_, _, _)
RECURSIVE RemoveEntries(_, _, _, _)
RECURSIVE RemoveEntriesUntilFailure(_, _, _, _)

\* One turn of the readdir loop: stat(item_path), then the recursive call
\* for a directory and remove() for a file.
RemoveEntry(t, item_path, entry, bad) ==
    IF ~Exists(t, item_path)
    THEN [fs |-> t, success |-> FALSE, seen |-> {}]
    ELSE IF IsDir(t, item_path)
    THEN removeDirectoryRecursive(t, item_path, bad)
    ELSE IF CanRemove(t, item_path) /\ entry \notin bad
    THEN [fs |-> Remove(t, item_path), success |-> TRUE,
          seen |-> {Remove(t, item_path)}]
    ELSE [fs |-> t, success |-> FALSE, seen |-> {}]

\* success = false is remembered and the loop goes on.
RemoveBoth(one, rest) ==
    [fs |-> rest.fs, success |-> one.success /\ rest.success,
     seen |-> one.seen \cup rest.seen]

\* A walk that ends at the first entry it cannot remove.
RemoveUntilFailure(one, path, entries, bad) ==
    IF ~one.success THEN one
    ELSE RemoveBoth(one, RemoveEntriesUntilFailure(one.fs, path, entries, bad))

RemoveEntriesUntilFailure(t, path, entries, bad) ==
    IF entries = {} THEN [fs |-> t, success |-> TRUE, seen |-> {}]
    ELSE LET entry == CHOOSE e \in entries : TRUE
         IN  RemoveUntilFailure(
                 RemoveEntry(t, path \o Slash \o DName(entry), entry, bad),
                 path, entries \ {entry}, bad)

\* The turns after the one that gave one.
RemoveRest(one, path, entries, bad) ==
    RemoveBoth(one, RemoveEntries(one.fs, path, entries, bad))

RemoveEntries(t, path, entries, bad) ==
    IF entries = {} THEN [fs |-> t, success |-> TRUE, seen |-> {}]
    ELSE LET entry == CHOOSE e \in entries : TRUE
         IN  RemoveRest(
                 RemoveEntry(t, path \o Slash \o DName(entry), entry, bad),
                 path, entries \ {entry}, bad)

\* closedir, then rmdir(path) of the directory itself.
RemoveSelf(inner, path, bad) ==
    IF CanRmdir(inner.fs, path) /\ Norm(path) \notin bad
    THEN [fs |-> Rmdir(inner.fs, path), success |-> inner.success,
          seen |-> inner.seen \cup {Rmdir(inner.fs, path)}]
    ELSE [fs |-> inner.fs, success |-> FALSE, seen |-> inner.seen]

removeDirectoryRecursive(t, path, bad) ==
    IF ~IsDir(t, path) THEN [fs |-> t, success |-> FALSE, seen |-> {}]
    ELSE RemoveSelf(RemoveEntries(t, path, Children(t, Norm(path)), bad),
                    path, bad)

\* A handler without the root check.
NoRootPath(path) == FALSE

\* if (path == "/" || path == "/sdcard")
IsRootPath(path) == path = Slash \/ path = SD_ROOT

\* A handler that takes every entry for a directory.
AlwaysDirectory(t, p) == FALSE

\* if (!S_ISDIR(st.st_mode))
NotDirectory(t, p) == ~IsDir(t, p)

\* DELETE /api/rmdir?path=...
handleRmdir(path, bad) ==
    LET full_path == FullPath(path)
        r == DirRequest("rmdir", path, bad)
        out == removeDirectoryRecursive(fs, full_path, bad)
    IN  /\ Arrive(r)
        /\ DirLocalsUnchanged
        /\ IF PathMissing(path)
           THEN /\ Return(sendErrorResponse(400, "Path parameter required"))
                /\ hist' = StartHist(r)
                /\ UNCHANGED fs
           ELSE IF IsRootPath(path)
           THEN /\ Return(sendErrorResponse(400, "Cannot delete root directory"))
                /\ hist' = StartHist(r)
                /\ UNCHANGED fs
           ELSE IF ~Exists(fs, full_path)
           THEN /\ Return(sendErrorResponse(404, "Directory not found"))
                /\ hist' = [StartHist(r) EXCEPT !.touched = {full_path}]
                /\ UNCHANGED fs
           ELSE IF NotDirectory(fs, full_path)
           THEN /\ Return(sendErrorResponse(400, "Path is not a directory"))
                /\ hist' = [StartHist(r) EXCEPT !.touched = {full_path}]
                /\ UNCHANGED fs
           ELSE /\ fs' = out.fs
                /\ hist' = [StartHist(r) EXCEPT
                              !.touched = {full_path},
                              !.recursed = TRUE,
                              !.seen = out.seen,
                              !.wfail = bad \cap Subtree(fs, Norm(full_path)) # {}]
                /\ IF ~out.success
                   THEN Return(sendErrorResponse(
                                   500, "Failed to delete directory completely"))
                   ELSE Return(sendJsonPath(path))

-----------------------------------------------------------------------------
(* The directory specification: two directory requests in a row *)

Str_d == <<"/", "d">>
Str_ds == <<"/", "d", "/", "s">>
Str_dsg == <<"/", "d", "/", "s", "/", "g">>
Str_df == <<"/", "d", "/", "f">>
Str_e == <<"/", "e">>
Str_eh == <<"/", "e", "/", "h">>
Str_n == <<"/", "n">>
Str_nm == <<"/", "n", "/", "m">>
Str_fx == <<"/", "f", "/", "x">>
Str_up_d == <<"/", ".", ".", "/", "d">>

\* /sdcard/d holds the files f and s/g, beside it the file /sdcard/f and the
\* directory /sdcard/e with the file h.
FilledTree ==
    (SD_ROOT :> DirNode)
        @@ (Entry(Str_d) :> DirNode)
        @@ (Entry(Str_df) :> FileNode(<<"A">>))
        @@ (Entry(Str_ds) :> DirNode)
        @@ (Entry(Str_dsg) :> FileNode(<<"B">>))
        @@ (Entry(Str_f) :> FileNode(<<"C">>))
        @@ (Entry(Str_e) :> DirNode)
        @@ (Entry(Str_eh) :> FileNode(<<"D">>))

DirTrees == {BareTree, FilledTree}

DirPaths == {<<>>, Slash, SD_ROOT, Str_d, Str_ds, Str_f, Str_e, Str_n,
             Str_nm, Str_fx, Str_up_d}

\* Refusals of the storage: none, a file, a directory, another file.
BadSets == {{}, {Entry(Str_dsg)}, {Entry(Str_ds)}, {Entry(Str_df)}}

MaxDirRequests == 2

InitDir ==
    /\ fs \in DirTrees
    /\ IdleLocals
    /\ Started

\* The server takes another request.
Accepting == nreq < MaxDirRequests

NextDir ==
    \/ \E path \in DirPaths : Accepting /\ handleDeleteFile(path)
    \/ \E path \in DirPaths : Accepting /\ handleMkdir(path)
    \/ \E path \in DirPaths : Accepting /\ createDirectoryRecursiveCall(path)
    \/ \E path \in DirPaths, bad \in BadSets :
            Accepting /\ handleRmdir(path, bad)

SpecDir == InitDir /\ [][NextDir]_vars

-----------------------------------------------------------------------------
(* Properties of the directory operations *)

\* C7 (root protection): an rmdir request whose path is "/" or the mount
\* root is answered with 400 before any storage call, and the tree is the
\* same before and after.
C7_RootIsNeverRemoved ==
    (Returned("rmdir") /\ req.path \in {Slash, SD_ROOT})
        => /\ resp.kind = "error" /\ resp.code = 400
           /\ hist.touched = {}
           /\ fs = hist.fs0

C7_Witness ==
    /\ Returned("rmdir") /\ req.path = Slash
    /\ hist.fs0 = FilledTree
    /\ resp.code = 400
    /\ fs = FilledTree

\* The request was a recursive delete of an existing directory during which
\* no storage operation failed.
RmdirRan ==
    /\ Returned("rmdir") /\ req.path # <<>> /\ ~IsRootPath(req.path)
    /\ IsDir(hist.fs0, Entry(req.path))
    /\ ~hist.wfail

\* C8 (recursive delete): when no storage operation fails, the directory,
\* its files and its subdirectories are removed, exactly those, and every
\* entry outside the deleted subtree is unchanged.
C8_RemovesExactlyTheSubtree ==
    RmdirRan
        => /\ DOMAIN fs =
                DOMAIN hist.fs0 \ Subtree(hist.fs0, Norm(Entry(req.path)))
           /\ \A n \in DOMAIN fs : fs[n] = hist.fs0[n]
           /\ Success(resp)

C8_Witness ==
    /\ RmdirRan /\ req.path = Str_d /\ hist.fs0 = FilledTree
    /\ Cardinality(Subtree(hist.fs0, Entry(Str_d))) = 4
    /\ DOMAIN fs = {SD_ROOT, Entry(Str_f), Entry(Str_e), Entry(Str_eh)}

\* The same creation was asked for twice in a row.
CreatedTwice ==
    /\ pc = "idle" /\ req.kind \in {"mkdir", "create"} /\ resp.kind # "none"
    /\ hist.prev.kind = req.kind
    /\ hist.prev.path = req.path
    /\ req.path # <<>>

\* C9 as stated (idempotent creation): creating the same path twice reports
\* success both times and the second call leaves the tree as the first left
\* it.
C9_SuccessBothTimes ==
    CreatedTwice
        => /\ Success(hist.prevResp) /\ Success(resp)
           /\ fs = hist.fs0

\* The first of two creations could succeed: the path names an entry, and
\* for recursive create no segment above it is a regular file, for
\* /api/mkdir the path exists or its parent directory does.
Creatable(t, kind, path) ==
    /\ Norm(Entry(path)) # Invalid
    /\ IF kind = "create"
       THEN \A a \in Ancestors(Norm(Entry(path))) : ~IsFile(t, a)
       ELSE Exists(t, Entry(path)) \/ IsDir(t, Parent(Norm(Entry(path))))

\* C9 (idempotent creation, amended): creating the same path twice gives the
\* same result both times, success whenever the path could be created, and
\* the second call leaves the tree as the first left it.
C9_SecondCallRepeatsFirst ==
    CreatedTwice
        => /\ resp = hist.prevResp
           /\ Creatable(hist.prevFs0, req.kind, req.path) => Success(resp)
           /\ fs = hist.fs0

C9_Witness ==
    /\ CreatedTwice /\ req.kind = "create" /\ req.path = Str_nm
    /\ ~Exists(hist.prevFs0, Entry(Str_n))
    /\ IsDir(hist.fs0, Entry(Str_nm))
    /\ Success(hist.prevResp) /\ Success(resp)
    /\ fs = hist.fs0

-----------------------------------------------------------------------------
(* The other handlers: handleListDir, handleGetInfo, handleCors *)

\* The items of a listing: name, type and size of the entries of a
\* directory.
Items(t, n) ==
    {[name |-> DName(q), dir |-> t[q].dir, size |-> Len(t[q].data)] :
        q \in Children(t, n)}

\* GET /api/list?path=...   an empty path lists "/".
handleListDir(path) ==
    LET dir_path == IF PathMissing(path) THEN Slash ELSE path
        full_path == FullPath(dir_path)
        r == DirRequest("list", path, {})
    IN  /\ Arrive(r)
        /\ DirLocalsUnchanged
        /\ UNCHANGED fs
        /\ IF ~IsDir(fs, full_path)
           THEN /\ Return(sendErrorResponse(404, "Directory not found"))
                /\ hist' = [StartHist(r) EXCEPT !.touched = {full_path}]
           ELSE /\ Return([sendJsonPath(dir_path) EXCEPT
                              !.items = Items(fs, Norm(full_path))])
                /\ hist' = [StartHist(r) EXCEPT !.touched =
                              {full_path} \cup
                              {full_path \o Slash \o DName(q) :
                                  q \in Children(fs, Norm(full_path))}]

\* GET /api/info
handleGetInfo ==
    LET r == DirRequest("info", <<>>, {})
    IN  /\ Arrive(r)
        /\ DirLocalsUnchanged
        /\ UNCHANGED fs
        /\ hist' = StartHist(r)
        /\ Return(sendJsonResponse(Response("json", 200, 0, "", <<>>, 0, <<>>, 0)))

\* OPTIONS /api/*: the header fields and a body of no bytes.
handleCors(path) ==
    LET r == DirRequest("options", path, {})
    IN  /\ Arrive(r)
        /\ DirLocalsUnchanged
        /\ UNCHANGED fs
        /\ hist' = StartHist(r)
        /\ Return(setCorsHeaders(Response("empty", 200, 0, "", <<>>, 0, <<>>, 0)))

-----------------------------------------------------------------------------
(* The server specification: one request to any of the endpoints *)

\* Bodies of an upload: none, and two bytes.
ApiBodies == {<<>>, <<"B", "A">>}

ApiBatches ==
    {BatchRequest(<<>>, Param_X, Parts_one, TRUE),
     BatchRequest(Str_d, Param_X, Parts_one, TRUE),
     WithContentType(BatchRequest(<<>>, Param_X, Parts_one, TRUE), "none"),
     WithContentType(BatchRequest(<<>>, Param_X, Parts_one, TRUE), "plain")}

InitApi ==
    /\ fs \in DirTrees
    /\ IdleLocals
    /\ Started

\* The server has taken no request yet.
Fresh == nreq = 0

NextApi ==
    \/ \E path \in DirPaths, body \in ApiBodies :
         \E clen \in PostLengths(body) : Fresh /\ handlePostFile(path, body, clen)
    \/ \E k \in 1..FILE_BUFFER_SIZE : PostRecvData(k)
    \/ \E k \in 1..FILE_BUFFER_SIZE : \E w \in 0..FILE_BUFFER_SIZE :
            PostRecvShortWrite(k, w)
    \/ PostRecvTimeout
    \/ PostRecvError
    \/ PostTail
    \/ \E path \in DirPaths : Fresh /\ handleGetFile(path)
    \/ GetSendChunk
    \/ GetSendFails
    \/ GetTail
    \/ \E path \in DirPaths : Fresh /\ handleDeleteFile(path)
    \/ \E path \in DirPaths : Fresh /\ handleMkdir(path)
    \/ \E path \in DirPaths, bad \in BadSets : Fresh /\ handleRmdir(path, bad)
    \/ \E path \in DirPaths : Fresh /\ handleListDir(path)
    \/ Fresh /\ handleGetInfo
    \/ \E path \in DirPaths : Fresh /\ handleCors(path)
    \/ \E r \in ApiBatches : Fresh /\ handleUploadBatch(r)
    \/ \E k \in 1..BufSize : BatchRecvData(k)
    \/ \E k \in 1..BufSize : BatchRecvWriteFails(k)
    \/ BatchRecvTimeout
    \/ BatchRecvError
    \/ BatchTail

SpecApi == InitApi /\ [][NextApi]_vars

-----------------------------------------------------------------------------
(* The upload specification: one upload, single-file or multipart, served  *)
(* by a task that keeps running                                           *)

NextRecv ==
    \/ \E body \in ApiBodies : \E clen \in PostLengths(body) :
            Fresh /\ handlePostFile(Str_f, body, clen)
    \/ \E k \in 1..FILE_BUFFER_SIZE : PostRecvData(k)
    \/ \E k \in 1..FILE_BUFFER_SIZE : \E w \in 0..FILE_BUFFER_SIZE :
            PostRecvShortWrite(k, w)
    \/ PostRecvTimeout
    \/ PostRecvError
    \/ PostTail
    \/ \E closed \in BOOLEAN :
            Fresh /\ handleUploadBatch(
                        BatchRequest(<<>>, Param_X, Parts_one, closed))
    \/ \E k \in 1..BufSize : BatchRecvData(k)
    \/ \E k \in 1..BufSize : BatchRecvWriteFails(k)
    \/ BatchRecvTimeout
    \/ BatchRecvError
    \/ BatchTail

\* The steps of a handler other than the receipt of data: a receive that
\* returns without data, and the code after the loop.
RecvReturns ==
    \/ PostRecvTimeout
    \/ PostRecvError
    \/ PostTail
    \/ BatchRecvTimeout
    \/ BatchRecvError
    \/ BatchTail

\* The handler's task is scheduled: a handler that can take a step takes
\* one.  What the transport returns to a receive is not constrained; as a
\* body has finitely many bytes, a handler that keeps taking steps takes
\* steps of RecvReturns.
SpecRecv == InitBatch /\ [][NextRecv]_vars /\ WF_vars(RecvReturns)

-----------------------------------------------------------------------------
(* Properties of the batch upload's admission *)

\* C11 (no boundary, no decode): a batch upload whose Content-Type header is
\* missing or has no boundary= parameter is answered with 400 before a body
\* byte is received, a directory created or a file opened.
C11_NoBoundaryIsRejected ==
    (req.kind = "batch" /\ req.ctype \in {"none", "plain"})
        => /\ pc = "idle"
           /\ resp.kind = "error" /\ resp.code = 400
           /\ hist.chunks = 0
           /\ hist.touched = {}
           /\ fp = NULL
           /\ fs = hist.fs0

C11_Witness ==
    /\ Returned("batch") /\ req.ctype = "plain"
    /\ Len(req.body) > 0 /\ req.content_len = Len(req.body)
    /\ resp.code = 400
    /\ resp.message = "Boundary not found in Content-Type"

\* The tree when the headers of part i have been read: the parts before it
\* are stored, and the directories above part i's file are made.
TreeAtPart(r, i, t) ==
    LET before == BatchRequest(r.path, r.param, SubSeq(r.parts, 1, i - 1), TRUE)
        file_path == FilePath(BasePath(r.path), r.parts[i].file)
    IN  createDirectoryRecursive(OneChunk(before, t).fs,
            Substr(file_path, 0, RFind(file_path, "/"))).fs

\* Part i is skipped: its headers carry no file name, or its file cannot be
\* opened.
Skipped(r, i, t) ==
    \/ ~r.parts[i].named
    \/ ~CanOpenWrite(TreeAtPart(r, i, t),
                     FilePath(BasePath(r.path), r.parts[i].file))

\* The parts of a sequence at the positions of a set, in their order.
RECURSIVE PartsAt(_, _, _)
PartsAt(parts, keep, i) ==
    IF i > Len(parts) THEN <<>>
    ELSE (IF i \in keep THEN <<parts[i]>> ELSE <<>>)
            \o PartsAt(parts, keep, i + 1)

\* The same upload without its skipped parts.
WithoutSkipped(r, t) ==
    BatchRequest(r.path, r.param,
        PartsAt(r.parts, {i \in 1..Len(r.parts) : ~Skipped(r, i, t)}, 1), TRUE)

\* The files of a tree with their contents.
FilesOf(t) == [n \in {q \in DOMAIN t : ~t[q].dir} |-> t[n].data]

-----------------------------------------------------------------------------
(* Properties of the responses *)

\* The endpoints whose path parameter is required.
NeedsPath == {"get", "post", "delete", "mkdir", "rmdir"}

IsError(code) == resp.kind = "error" /\ resp.code = code

\* The handler met a failure of the storage layer: an open, a write, a
\* delete or a mkdir that the volume refused.
StorageFailed ==
    LET target == Entry(req.path)
    IN  CASE req.kind = "post" ->
                ~CanOpenWrite(hist.fs0, target) \/ hist.wfail
          [] req.kind = "delete" ->
                /\ Exists(hist.fs0, target)
                /\ IF IsDir(hist.fs0, target) THEN ~CanRmdir(hist.fs0, target)
                                               ELSE ~CanRemove(hist.fs0, target)
          [] req.kind = "mkdir" ->
                MkdirResult(hist.fs0, target) = "ENOENT"
          [] req.kind = "rmdir" ->
                /\ ~IsRootPath(req.path)
                /\ IsDir(hist.fs0, target)
                /\ hist.wfail
          [] OTHER -> FALSE

ErrorMessages ==
    {"Path parameter required", "File not found", "Directory not found",
     "Failed to create file", "File upload incomplete", "Failed to delete",
     "Failed to create directory", "Cannot delete root directory",
     "Path is not a directory", "Failed to delete directory completely",
     "Content-Type header required", "Boundary not found in Content-Type"}

\* C14 (error objects): every error response is a JSON object with a
\* message and a code, and the code is the HTTP status set on the response,
\* at every sendErrorResponse call of every handler.
C14_ErrorCodeIsStatus ==
    resp.kind = "error"
        => /\ resp.json_code = resp.code
           /\ resp.code \in {400, 404, 500}
           /\ resp.message \in ErrorMessages
           /\ resp.type = "application/json"

\* A recursive delete aimed at a file has been answered with 400.
C14_Witness ==
    /\ Returned("rmdir") /\ req.path = Str_f
    /\ hist.fs0 = FilledTree
    /\ resp.kind = "error"
    /\ resp.json_code = 400 /\ resp.code = 400
    /\ resp.message = "Path is not a directory"

\* C15 (CORS): on every response of a handler (JSON success, JSON error,
\* download stream, OPTIONS preflight) the three CORS header fields are set
\* before the first byte of the response is sent, and the OPTIONS handler
\* sends a body of no bytes.
C15_CorsHeadersOnEveryResponse ==
    /\ resp.kind \in {"json", "error", "stream", "empty"}
            => CorsHeaders \subseteq resp.headers
    /\ (req.kind = "get" /\ (sent # <<>> \/ pc \in {"get_loop", "get_tail"}))
            => resp.kind = "stream" /\ CorsHeaders \subseteq resp.headers
    /\ (pc = "idle" /\ req.kind # "none")
            => resp.kind \in {"json", "error", "stream", "empty"}
    /\ Returned("options")
            => resp.kind = "empty" /\ resp.code = 200 /\ sent = <<>>

\* A download is under way: its first chunk has gone out, the loop has not
\* ended, and the header fields are those set before the loop.
C15_Witness ==
    /\ req.kind = "get" /\ pc = "get_loop"
    /\ Len(sent) = 1 /\ sent[1] # <<>>
    /\ resp.kind = "stream"
    /\ resp.headers = CorsHeaders

-----------------------------------------------------------------------------
(* Termination of the receive loops *)

\* C16 (handlers return): every call of handlePostFile and of
\* handleUploadBatch leaves its receive loop, sends its response and
\* returns, whatever the transport returns to its receives: data, a
\* timeout, an error or zero bytes.
C16_UploadHandlersReturn ==
    (pc \in {"post_loop", "batch_loop"}) ~> (pc = "idle")

-----------------------------------------------------------------------------
(* The life cycle: HttpFileServer::start, stop, isRunning *)

\* A call on the server object.
LifeRequest(kind, port, ret) ==
    [kind |-> kind, path |-> <<>>, body |-> <<>>, content_len |-> 0,
     port |-> port, ret |-> ret]

\* The handler state, which these calls leave alone.
LifeFrame == <<fs, pc, rx, remaining, total_written, fp, accumulated_data,
               current_filename, in_file_content, file_count, json_files,
               sent, rpos, AppVars>>

MaxLifeCalls == 4

\* Another call is made, from the task that owns the server, while no
\* handler runs.
Calling == pc = "idle" /\ nreq < MaxLifeCalls

\* A server that starts again whatever its state.
NeverRunning == FALSE

\* if (_server != nullptr): the server is running already.
AlreadyRunning == _server # nullptr

\* bool start(uint16_t port): httpd_start returns ret and, with ESP_OK,
\* stores the handle h.
start(port, ret, h) ==
    LET done == AlreadyRunning \/ ret = "ESP_OK"
    IN  /\ Calling
        /\ req' = LifeRequest("start", port, ret)
        /\ nreq' = nreq + 1
        /\ IF AlreadyRunning
           THEN UNCHANGED <<_server, _port>>
           ELSE /\ _port' = port
                /\ _server' = IF ret = "ESP_OK" THEN h ELSE _server
        /\ resp' = ReturnedBool(done)
        /\ hist' = [hist EXCEPT !.call = "start", !.was = <<_server, _port>>,
                                !.up = done]
        /\ UNCHANGED LifeFrame

\* void stop()
stop ==
    /\ Calling
    /\ req' = LifeRequest("stop", _port, "ESP_OK")
    /\ nreq' = nreq + 1
    /\ _server' = IF _server # nullptr THEN nullptr ELSE _server
    /\ resp' = NoResp
    /\ hist' = [hist EXCEPT !.call = "stop", !.was = <<_server, _port>>,
                            !.up = FALSE]
    /\ UNCHANGED <<_port>>
    /\ UNCHANGED LifeFrame

\* A call of isRunning().
isRunningCall ==
    /\ Calling
    /\ req' = LifeRequest("isRunning", _port, "ESP_OK")
    /\ nreq' = nreq + 1
    /\ resp' = ReturnedBool(isRunning)
    /\ hist' = [hist EXCEPT !.call = "isRunning", !.was = <<_server, _port>>]
    /\ UNCHANGED <<_server, _port>>
    /\ UNCHANGED LifeFrame

\* Ports asked for, results of httpd_start, and handles it hands out.
Ports == {80, 8080}
StartResults == {"ESP_OK", "ESP_FAIL"}
Handles == {1, 2}

\* The singleton as constructed: httpd_handle_t _server = nullptr,
\* uint16_t _port = 80.
InitLife ==
    /\ fs = BareTree
    /\ IdleLocals
    /\ _server = nullptr
    /\ _port = 80
    /\ NoApp

NextLife ==
    \/ \E port \in Ports, ret \in StartResults, h \in Handles :
            start(port, ret, h)
    \/ stop
    \/ isRunningCall

SpecLife == InitLife /\ [][NextLife]_vars

\* C17 (life cycle): after any sequence of start and stop calls, start has
\* returned true exactly if the server is running when it returns;
\* isRunning() is true exactly when a start that returned true has not been
\* followed by a stop; stop on a stopped server changes nothing; a start
\* whose httpd_start failed leaves isRunning() false.
C17_LifeCycle ==
    /\ hist.call = "start" => (resp.message = "true" <=> isRunning)
    /\ isRunning <=> hist.up
    /\ hist.call = "isRunning" => (resp.message = "true" <=> hist.up)
    /\ (hist.call = "stop" /\ hist.was[1] = nullptr)
            => <<_server, _port>> = hist.was /\ fs = BareTree
    /\ (hist.call = "start" /\ hist.was[1] = nullptr /\ req.ret # "ESP_OK")
            => ~isRunning /\ resp.message = "false"
    /\ hist.call = "stop" => ~isRunning

\* A server that was started, stopped and could not be started again is
\* not running.
C17_Witness ==
    /\ hist.call = "start" /\ req.ret = "ESP_FAIL"
    /\ hist.was = <<nullptr, 80>> /\ req.port = 8080
    /\ nreq = 3
    /\ ~isRunning /\ _port = 8080
    /\ resp.message = "false"

-----------------------------------------------------------------------------
(* DELETE /api/file on directories *)

\* DELETE /api/file was asked to delete an entry that exists.
DeleteRan ==
    /\ Returned("delete") /\ req.path # <<>>
    /\ Exists(hist.fs0, Entry(req.path))

\* The directory holds something.
NonEmptyDir(t, n) == t[n].dir /\ Children(t, n) # {}

\* C18 as stated (delete of a directory): DELETE /api/file on a non-empty
\* directory returns an error and leaves the tree as it was; on a regular
\* file or an empty directory it removes exactly that entry.
C18_DeletesFileOrEmptyDirectory ==
    DeleteRan
        => LET n == Norm(Entry(req.path))
           IN  IF NonEmptyDir(hist.fs0, n)
               THEN resp.kind = "error" /\ fs = hist.fs0
               ELSE resp.kind = "json" /\ fs = Drop(hist.fs0, n)

\* C18 (delete of a directory, the root set apart): DELETE /api/file on a
\* non-empty directory, and on the root of the card, returns an error and
\* leaves the tree as it was; on a regular file or an empty directory
\* below the root it removes exactly that entry.
C18_DeletesFileOrEmptyDirectoryBelowRoot ==
    DeleteRan
        => LET n == Norm(Entry(req.path))
           IN  IF NonEmptyDir(hist.fs0, n) \/ n = SD_ROOT
               THEN resp.kind = "error" /\ fs = hist.fs0
               ELSE resp.kind = "json" /\ fs = Drop(hist.fs0, n)

\* A directory that holds entries has been refused, the tree as it was,
\* and a file deleted after it.
C18_Witness ==
    /\ DeleteRan /\ req.path = Str_f
    /\ hist.prev.kind = "delete" /\ hist.prev.path = Str_d
    /\ hist.prevFs0 = FilledTree /\ hist.fs0 = FilledTree
    /\ hist.prevResp.kind = "error" /\ hist.prevResp.code = 500
    /\ resp.kind = "json"
    /\ fs = Drop(FilledTree, Entry(Str_f))

-----------------------------------------------------------------------------
(* The download specification: downloads of files of every kind of name *)

\* A card with a file for each extension of the table, and files whose
\* names have no extension, another one, two of them, none after the dot,
\* nothing before it, or a dot in the directory above them.
TypedTree ==
    (SD_ROOT :> DirNode)
        @@ (Entry(<<"/", "v", ".", "t", "x", "t">>) :> DirNode)
        @@ (Entry(<<"/", "a", ".", "t", "x", "t">>) :> FileNode(<<"A">>))
        @@ (Entry(<<"/", "a", ".", "h", "t", "m", "l">>) :> FileNode(<<"A">>))
        @@ (Entry(<<"/", "a", ".", "h", "t", "m">>) :> FileNode(<<"A">>))
        @@ (Entry(<<"/", "a", ".", "c", "s", "s">>) :> FileNode(<<"A">>))
        @@ (Entry(<<"/", "a", ".", "j", "s">>) :> FileNode(<<"A">>))
        @@ (Entry(<<"/", "a", ".", "j", "s", "o", "n">>) :> FileNode(<<"A">>))
        @@ (Entry(<<"/", "a", ".", "p", "n", "g">>) :> FileNode(<<"A">>))
        @@ (Entry(<<"/", "a", ".", "j", "p", "g">>) :> FileNode(<<"A">>))
        @@ (Entry(<<"/", "a", ".", "j", "p", "e", "g">>) :> FileNode(<<"A">>))
        @@ (Entry(<<"/", "a", ".", "g", "i", "f">>) :> FileNode(<<"A">>))
        @@ (Entry(<<"/", "a", ".", "e", "p", "u", "b">>) :> FileNode(<<"A">>))
        @@ (Entry(<<"/", "a", ".", "p", "d", "f">>) :> FileNode(<<"A">>))
        @@ (Entry(<<"/", "a">>) :> FileNode(<<"A">>))
        @@ (Entry(<<"/", "a", ".", "T", "X", "T">>) :> FileNode(<<"A">>))
        @@ (Entry(<<"/", "a", ".", "t", "a", "r", ".", "g", "z">>) :> FileNode(<<"A">>))
        @@ (Entry(<<"/", "a", ".", "t", "x", "t", ".", "p", "n", "g">>) :> FileNode(<<"A">>))
        @@ (Entry(<<"/", "a", ".">>) :> FileNode(<<"A">>))
        @@ (Entry(<<"/", ".", "t", "x", "t">>) :> FileNode(<<"A">>))
        @@ (Entry(<<"/", "a", ".", "j", "s", "x">>) :> FileNode(<<"A">>))
        @@ (Entry(<<"/", "v", ".", "t", "x", "t", "/", "b">>) :> FileNode(<<"A">>))
        @@ (Entry(<<"/", "v", ".", "t", "x", "t", "/", "c", ".", "p", "d", "f">>) :> FileNode(<<"A">>))

\* The paths asked for: the files of the card, a directory, and a file
\* that is not there.
GetPaths ==
    {<<"/", "a", ".", "t", "x", "t">>,
     <<"/", "a", ".", "h", "t", "m", "l">>,
     <<"/", "a", ".", "h", "t", "m">>,
     <<"/", "a", ".", "c", "s", "s">>,
     <<"/", "a", ".", "j", "s">>,
     <<"/", "a", ".", "j", "s", "o", "n">>,
     <<"/", "a", ".", "p", "n", "g">>,
     <<"/", "a", ".", "j", "p", "g">>,
     <<"/", "a", ".", "j", "p", "e", "g">>,
     <<"/", "a", ".", "g", "i", "f">>,
     <<"/", "a", ".", "e", "p", "u", "b">>,
     <<"/", "a", ".", "p", "d", "f">>,
     <<"/", "a">>,
     <<"/", "a", ".", "T", "X", "T">>,
     <<"/", "a", ".", "t", "a", "r", ".", "g", "z">>,
     <<"/", "a", ".", "t", "x", "t", ".", "p", "n", "g">>,
     <<"/", "a", ".">>,
     <<"/", ".", "t", "x", "t">>,
     <<"/", "a", ".", "j", "s", "x">>,
     <<"/", "v", ".", "t", "x", "t", "/", "b">>,
     <<"/", "v", ".", "t", "x", "t", "/", "c", ".", "p", "d", "f">>,
     <<"/", "v", ".", "t", "x", "t">>,
     <<"/", "m", ".", "t", "x", "t">>}

MaxDownloads == 2

InitGet ==
    /\ fs = TypedTree
    /\ IdleLocals
    /\ Started

\* The server takes another download.
Downloading == nreq < MaxDownloads

NextGet ==
    \/ \E path \in GetPaths : Downloading /\ handleGetFile(path)
    \/ GetSendChunk
    \/ GetSendFails
    \/ GetTail

SpecGet == InitGet /\ [][NextGet]_vars

\* The table of content types by extension.
ContentTypes ==
    (<<".", "t", "x", "t">> :> "text/plain")
        @@ (<<".", "h", "t", "m", "l">> :> "text/html")
        @@ (<<".", "h", "t", "m">> :> "text/html")
        @@ (<<".", "c", "s", "s">> :> "text/css")
        @@ (<<".", "j", "s">> :> "application/javascript")
        @@ (<<".", "j", "s", "o", "n">> :> "application/json")
        @@ (<<".", "p", "n", "g">> :> "image/png")
        @@ (<<".", "j", "p", "g">> :> "image/jpeg")
        @@ (<<".", "j", "p", "e", "g">> :> "image/jpeg")
        @@ (<<".", "g", "i", "f">> :> "image/gif")
        @@ (<<".", "e", "p", "u", "b">> :> "application/epub+zip")
        @@ (<<".", "p", "d", "f">> :> "application/pdf")

\* The last component of a path, and the extension of a name: its text
\* from its last '.', if it has one.
BaseName(path) == SubstrFrom(path, RFind(path, "/") + 1)
Extension(name) ==
    IF RFind(name, ".") = npos THEN <<>> ELSE SubstrFrom(name, RFind(name, "."))

\* C19 (content type): the Content-Type of a download is the table's entry
\* for the extension of the file's base name, and application/octet-stream
\* for every other extension and for a name without one.
C19_ContentTypeByExtension ==
    (req.kind = "get" /\ resp.kind = "stream")
        => LET ext == Extension(BaseName(req.path))
           IN  resp.type = IF ext \in DOMAIN ContentTypes
                           THEN ContentTypes[ext]
                           ELSE "application/octet-stream"

\* A file without extension below a directory named v.txt has been sent as
\* application/octet-stream, and after it an .epub file as
\* application/epub+zip.
C19_Witness ==
    /\ Returned("get") /\ req.path = <<"/", "a", ".", "e", "p", "u", "b">>
    /\ resp.kind = "stream" /\ resp.type = "application/epub+zip"
    /\ Concat(sent) = <<"A">>
    /\ hist.prev.kind = "get" /\ hist.prev.path = <<"/", "v", ".", "t", "x", "t", "/", "b">>
    /\ hist.prevResp.kind = "stream"
    /\ hist.prevResp.type = "application/octet-stream"

-----------------------------------------------------------------------------
(* Handles of the multipart decoder *)

\* C20 (one handle): at every point of a multipart decode at most one
\* destination file is open; the decoder is in the phase that receives a
\* file's content exactly when a destination file is open; a file is
\* opened only while none is open; and none is open after the handler has
\* returned.
C20_AtMostOneHandle ==
    req.kind = "batch"
        => /\ hist.steady
           /\ hist.handles <= 1
           /\ hist.handles = (IF fp # NULL THEN 1 ELSE 0)
           /\ pc \in {"batch_loop", "batch_tail"}
                => (in_file_content <=> fp # NULL)
           /\ pc = "idle" => fp = NULL

\* The second file of an upload is open, the first closed and recorded.
C20_Witness ==
    /\ req.kind = "batch" /\ pc = "batch_loop"
    /\ req.parts = Parts_two /\ req.closed
    /\ file_count = 1 /\ json_files = <<Name_a>>
    /\ in_file_content /\ fp = Norm(SD_ROOT \o Dir_kx \o Slash \o Name_sb)
    /\ hist.handles = 1
    /\ IsFile(fs, SD_ROOT \o Dir_kx \o Slash \o Name_a)

-----------------------------------------------------------------------------
(* What the multipart decoder writes and keeps *)

\* The parts of the upload whose file is the one that is open.
OpenParts == {i \in 1..Len(req.parts) : req.parts[i].named /\ PartPath(req, i) = fp}

\* C21 (prefix writes): while a part's file is open and its closing boundary
\* has not been found, the bytes written to the file so far are a prefix of
\* the part's payload; no byte of the CRLF before the boundary and no byte
\* of a boundary marker cut by a receive is written.
C21_WrittenIsPrefixOfPayload ==
    (req.kind = "batch" /\ pc \in {"batch_loop", "batch_tail"} /\ fp # NULL)
        => /\ \E i \in OpenParts : IsPrefix(hist.given, req.parts[i].payload)
           /\ ~hist.wfail => fs[fp].data = hist.given

\* The first byte of s/b has been written; the second is withheld with the
\* CRLF and the two dashes that came after it.
C21_Witness ==
    /\ req.kind = "batch" /\ pc = "batch_loop" /\ req.parts = Parts_two
    /\ fp = Norm(SD_ROOT \o Dir_kx \o Slash \o Name_sb)
    /\ hist.given = <<"B">>
    /\ fs[fp].data = <<"B">>
    /\ accumulated_data = <<"B", "\r", "\n", "-", "-">>

\* The last n bytes of s.
Suffix(s, n) == SubSeq(s, Len(s) - n + 1, Len(s))

IsSuffix(p, s) == Len(p) <= Len(s) /\ Suffix(s, Len(p)) = p

\* The bytes of the body received so far.
Received == SubSeq(req.body, 1, rx)

\* The lengths of the beginnings of the boundary that the bytes s end in.
PartialBoundaries(s) ==
    {n \in 1..(Len(Boundary(req.param)) - 1) :
        /\ n <= Len(s)
        /\ Suffix(s, n) = SubSeq(Boundary(req.param), 1, n)}

\* C22 (retained suffix): when the decoder seeks a boundary, finds none in
\* the accumulated data and drops bytes, what it keeps is the end of that
\* data and is at least as long as the boundary marker, so the beginning of
\* a boundary that a receive has cut is still there when the next receive
\* is appended.
C22_SeekKeepsBoundaryLength ==
    (req.kind = "batch" /\ pc = "batch_loop" /\ hist.cut # <<>>)
        => /\ ~in_file_content
           /\ Len(accumulated_data) >= Len(Boundary(req.param))
           /\ Len(accumulated_data) < Len(hist.cut[1])
           /\ IsSuffix(accumulated_data, hist.cut[1])
           /\ IsSuffix(accumulated_data, Received)
           /\ PartialBoundaries(accumulated_data) = PartialBoundaries(Received)

\* The field of Parts_skip has been skipped; the receive ended after the two
\* dashes of the next boundary, and they are kept.
C22_Witness ==
    /\ req.kind = "batch" /\ pc = "batch_loop" /\ req.parts = Parts_skip
    /\ hist.cut = << <<"Z", "\r", "\n", "-", "-">> >>
    /\ accumulated_data = <<"\n", "-", "-">>
    /\ PartialBoundaries(Received) = {1, 2}

\* C23 (bounded accumulation): during a multipart decode the accumulated
\* data is never longer than two capacities of the receive buffer, also
\* while a boundary has been found and the end of the part headers that
\* follow it has not arrived.
C23_AccumulatedWithinTwoBuffers ==
    (req.kind = "batch" /\ pc \in {"batch_loop", "batch_tail"})
        => Len(accumulated_data) <= 2 * BufSize

\* C24 (terminal boundary): once the terminal boundary has been found, no
\* byte received later in the request opens a file, writes to one or adds a
\* name to the result, also when those bytes hold another boundary and the
\* headers of a part.
C24_NothingAfterTerminalBoundary ==
    [][(req.kind = "batch" /\ pc = "batch_loop" /\ hist.term)
          => /\ fs' = fs
             /\ fp' = NULL
             /\ ~in_file_content'
             /\ file_count' = file_count
             /\ json_files' = json_files]_vars

-----------------------------------------------------------------------------
(* The receive loops of the two uploads *)

\* A receive loop is at its head and will call httpd_req_recv.
Receiving == pc \in {"post_loop", "batch_loop"} /\ remaining > 0

\* The step is a turn of a receive loop in which httpd_req_recv returned r.
ReceiveReturned(r) == Receiving /\ hist' # hist /\ hist'.recv = r

\* What a turn of a receive loop can change.
LoopLocals == <<pc, fs, rx, remaining, total_written, fp, accumulated_data,
                current_filename, in_file_content, file_count, json_files,
                resp, nreq>>

\* C25 (timeout is a retry): a turn of either upload loop in which the
\* receive timed out leaves the remaining-byte counter, the bytes written,
\* the accumulated data, the phase of the decoder and the open file as they
\* were, and the loop is at its head again with the same receive to make;
\* a turn in which the receive returned zero or a hard error ends the loop,
\* and no other receive result ends it while bytes remain.
C25_TimeoutIsPureRetry ==
    [][/\ ReceiveReturned(HTTPD_SOCK_ERR_TIMEOUT)
          => /\ UNCHANGED LoopLocals
             /\ PostToRead' = PostToRead /\ BatchToRead' = BatchToRead
             /\ Receiving'
       /\ \A r \in RecvFailures \ {HTTPD_SOCK_ERR_TIMEOUT} :
            ReceiveReturned(r) => /\ pc' \in {"post_tail", "batch_tail"}
                            /\ remaining' = remaining
       /\ (Receiving /\ pc' \in {"post_tail", "batch_tail"} /\ ~hist'.wfail)
            => hist'.recv \in RecvFailures \ {HTTPD_SOCK_ERR_TIMEOUT}]_vars

\* A batch upload has its first part's file open with bytes written to it,
\* and the last receive timed out.
C25_Witness ==
    /\ pc = "batch_loop" /\ req.kind = "batch" /\ remaining > 0
    /\ hist.recv = HTTPD_SOCK_ERR_TIMEOUT
    /\ in_file_content /\ fp # NULL /\ accumulated_data # <<>>
    /\ hist.chunks >= 2

\* The loops specification: one upload, single-file or batch, of a body
\* longer than the buffer, whose client has as many bytes to send as it
\* declared, or one more; or that declares more than an int can hold.
LoopBodies == {Pattern(FILE_BUFFER_SIZE + 2)}

LoopLengths(body) == {Len(body) - 1, Len(body), INT_MAX + 1}

LoopBatches ==
    {[WithLongHeader(BatchRequest(<<>>, Param_X, Parts_one, TRUE),
                     FILE_BUFFER_SIZE)
        EXCEPT !.content_len = @ - less, !.closed = FALSE] : less \in {0, 1}}

NextLoops ==
    \/ \E body \in LoopBodies : \E clen \in LoopLengths(body) :
            Fresh /\ handlePostFile(Str_f, body, clen)
    \/ \E k \in 1..FILE_BUFFER_SIZE : PostRecvData(k)
    \/ \E k \in 1..FILE_BUFFER_SIZE : \E w \in 0..FILE_BUFFER_SIZE :
            PostRecvShortWrite(k, w)
    \/ PostRecvTimeout
    \/ PostRecvError
    \/ PostTail
    \/ \E r \in LoopBatches : Fresh /\ handleUploadBatch(r)
    \/ \E k \in 1..BufSize : BatchRecvData(k)
    \/ \E k \in 1..BufSize : BatchRecvWriteFails(k)
    \/ BatchRecvTimeout
    \/ BatchRecvError
    \/ BatchTail

SpecLoops == InitBatch /\ [][NextLoops]_vars

\* The capacity of the buffer the loop receives into.
Capacity == IF pc = "post_loop" THEN FILE_BUFFER_SIZE ELSE BufSize

\* C26 (bounded receives): in both upload loops every receive takes at most
\* min(remaining, capacity of the buffer) bytes; at every iteration
\* remaining is not negative and remaining plus the bytes received so far
\* is the declared content length; the handler never takes more bytes of
\* the body than the request declared.
C26_ReceivesWithinRemaining ==
    /\ []((req.kind \in {"post", "batch"}) => rx <= req.content_len)
    /\ [](Receiving
            => /\ remaining + rx = req.content_len
               /\ PostToRead <= FILE_BUFFER_SIZE /\ PostToRead <= remaining
               /\ BatchToRead <= BufSize /\ BatchToRead <= remaining)
    /\ [][(Receiving /\ rx' # rx)
            => /\ rx' - rx <= Min(remaining, Capacity)
               /\ pc' = pc => /\ remaining' = remaining - (rx' - rx)
                              /\ remaining' >= 0]_vars

\* The single-file loop has taken a whole buffer and then the two bytes that
\* remained, of a client that had one more byte to send.
C26_Witness ==
    /\ req.kind = "post" /\ pc = "post_loop" /\ hist.chunks = 2
    /\ req.content_len = FILE_BUFFER_SIZE + 1
    /\ Len(req.body) = FILE_BUFFER_SIZE + 2
    /\ rx = req.content_len /\ remaining = 0

\* C27 (declared length): when a single-file upload is answered with
\* success, exactly the declared content length was received and written,
\* and the size reported is that length, whatever length was declared,
\* those an int cannot hold included.
C27_SuccessMeansDeclaredLength ==
    (Returned("post") /\ resp.kind = "json")
        => /\ ~hist.short /\ ~hist.rerr /\ ~hist.wfail
           /\ resp.size = req.content_len
           /\ IsFile(fs, Entry(req.path))
           /\ Len(fs[Norm(Entry(req.path))].data) = req.content_len

-----------------------------------------------------------------------------
(* The chunks of a download *)

\* Every chunk among the first n sent holds data, a buffer of it at most.
DataChunks(n) ==
    \A i \in 1..n : Len(sent[i]) >= 1 /\ Len(sent[i]) <= FILE_BUFFER_SIZE

\* The content of the file the request names.
Asked == fs[Norm(FullPath(req.path))].data

\* C28 (download chunks): a download sends data chunks of one byte to a
\* buffer each, in the order of the file, that joined are the content of
\* the file, and then one chunk of length zero, no more; once sending a
\* chunk has failed no data chunk is sent; the file is closed when the
\* handler returns.
C28_DownloadChunks ==
    /\ [](pc \in {"get_loop", "get_tail"}
            => /\ fp = Norm(FullPath(req.path))
               /\ DataChunks(Len(sent))
               /\ IsPrefix(Concat(sent), Asked)
               /\ ~hist.sfail => Concat(sent) = SubSeq(Asked, 1, rpos))
    /\ []((Returned("get") /\ resp.kind = "stream")
            => /\ Len(sent) >= 1
               /\ sent[Len(sent)] = <<>>
               /\ DataChunks(Len(sent) - 1)
               /\ IsPrefix(Concat(sent), Asked)
               /\ ~hist.sfail => Concat(sent) = Asked)
    /\ [](Returned("get") => fp = NULL)
    /\ [][(pc \in {"get_loop", "get_tail"} /\ hist.sfail)
            => sent' = Append(sent, <<>>) /\ pc' = "idle"]_vars

\* A file of a buffer and two bytes has gone out in a chunk of a buffer, a
\* chunk of two bytes and the chunk of length zero.
C28_Witness ==
    /\ Returned("get") /\ resp.kind = "stream" /\ ~hist.sfail
    /\ Len(sent) = 3
    /\ Len(sent[1]) = FILE_BUFFER_SIZE /\ Len(sent[2]) = 2 /\ sent[3] = <<>>
    /\ Concat(sent) = Pattern(FILE_BUFFER_SIZE + 2)

-----------------------------------------------------------------------------
(* Recursive delete and create when the storage refuses *)

\* The request was a recursive delete of an existing directory.
RmdirWalked ==
    /\ Returned("rmdir") /\ req.path # <<>> /\ ~IsRootPath(req.path)
    /\ IsDir(hist.fs0, Entry(req.path))

\* The entries the delete was asked to remove.
AskedToGo == Subtree(hist.fs0, Norm(Entry(req.path)))

\* Those of them that cannot go: the entries the storage refuses to remove
\* and the directories that hold one.
Held ==
    {n \in AskedToGo : \E b \in req.bad \cap AskedToGo :
                        b = n \/ IsPrefix(n \o Slash, b)}

\* C29 (delete goes on after a failure): when an entry of the subtree cannot
\* be removed, the walk goes on: every entry that can be removed is removed,
\* what is left is the refused entries and the directories above them; the
\* answer is success exactly when nothing of the subtree is left, and 500
\* otherwise.
C29_WalkGoesOnAfterFailure ==
    RmdirWalked
        => /\ DOMAIN fs = DOMAIN hist.fs0 \ (AskedToGo \ Held)
           /\ \A n \in DOMAIN fs : fs[n] = hist.fs0[n]
           /\ Success(resp) <=> AskedToGo \cap DOMAIN fs = {}
           /\ (resp.kind = "error" /\ resp.code = 500)
                <=> AskedToGo \cap DOMAIN fs # {}
           /\ Success(resp) \/ (resp.kind = "error" /\ resp.code = 500)

\* /d was to be deleted and the storage refused to remove /d/s: /d/f and
\* /d/s/g are gone, /d/s and /d are left, the answer is 500.
C29_Witness ==
    /\ RmdirWalked /\ req.path = Str_d /\ hist.fs0 = FilledTree
    /\ req.bad = {Entry(Str_ds)}
    /\ DOMAIN fs = {SD_ROOT, Entry(Str_d), Entry(Str_ds), Entry(Str_f),
                    Entry(Str_e), Entry(Str_eh)}
    /\ resp.kind = "error" /\ resp.code = 500

\* Every entry of the tree but the mount point lies in a directory of the
\* tree.
ParentsExist(t) ==
    \A n \in DOMAIN t :
        n # SD_ROOT => Parent(n) \in DOMAIN t /\ t[Parent(n)].dir

-----------------------------------------------------------------------------
(* What createDirectoryRecursive returns *)

\* The call of createDirectoryRecursive has returned true.
CreateReturnedTrue == Returned("create") /\ Success(resp)

\* C31 (recursive create, result): createDirectoryRecursive returns true
\* only if, when it returns, the target path and every prefix of it below
\* the storage root exist as directories, whatever the tree was before, a
\* regular file at the target path or at one of its prefixes included.
C31_TrueMeansDirectories ==
    CreateReturnedTrue
        => /\ IsDir(fs, Entry(req.path))
           /\ \A a \in Ancestors(Norm(Entry(req.path))) : IsDir(fs, a)

-----------------------------------------------------------------------------
(* DELETE /api/rmdir looks before it deletes *)

\* An rmdir request has been answered whose path was the protected root,
\* named nothing, or named a regular file.
RmdirRefused ==
    /\ Returned("rmdir") /\ req.path # <<>>
    /\ \/ IsRootPath(req.path)
       \/ ~IsDir(hist.fs0, Entry(req.path))

\* C32 (rmdir validation): a path that does not exist is answered with 404,
\* a path that is a regular file with 400, the protected root with 400, and
\* in all three cases removeDirectoryRecursive is not called and the tree is
\* left as it was.
C32_RmdirValidatesFirst ==
    RmdirRefused
        => /\ resp.kind = "error"
           /\ resp.code = IF IsRootPath(req.path) THEN 400
                          ELSE IF ~Exists(hist.fs0, Entry(req.path)) THEN 404
                          ELSE 400
           /\ ~hist.recursed
           /\ hist.seen = {}
           /\ fs = hist.fs0

\* Both refusals have happened in a row on the filled card: first for a
\* regular file, then for a path that names nothing.
C32_Witness ==
    /\ RmdirRefused /\ req.path = Str_n /\ resp.code = 404
    /\ hist.prev.kind = "rmdir" /\ hist.prev.path = Str_f
    /\ hist.prevResp.code = 400
    /\ fs = FilledTree

-----------------------------------------------------------------------------
(* A write that fails in the middle of a batch *)

\* No two parts of the upload name the same file.
DistinctNames(r) ==
    \A i, j \in 1..Len(r.parts) :
        r.parts[i].file = r.parts[j].file => i = j

\* The names the response lists.
Listed(r) == {r.files[i] : i \in 1..Len(r.files)}

\* C33 (write failure in a part): a part for which a write to the storage
\* failed while its payload was being written is left out of `files` and of
\* `count`, and the parts after it are decoded all the same.
C33_FailedPartIsLeftOut ==
    (Returned("batch") /\ DistinctNames(req))
        => /\ hist.failed \cap Listed(resp) = {}
           /\ resp.count <= Len(req.parts) - Cardinality(hist.failed)

-----------------------------------------------------------------------------
(* The boundary the decoder looks for *)

\* A batch upload whose header carries a boundary parameter is being decoded
\* or has been answered.
Decoding ==
    /\ req.kind = "batch" /\ HasContentType(req) /\ HasBoundary(req)
    /\ pc \in {"batch_loop", "batch_tail", "idle"}

\* C34 (boundary extraction): the marker the decoder searches for is "--"
\* followed by exactly the value of the boundary parameter of the
\* Content-Type header, for every header that carries the parameter: a
\* quoted value and a header with parameters after it included.
C34_MarkerIsDeclaredBoundary ==
    Decoding
        => Boundary(BoundaryStart(req.content_type)) = <<"-", "-">> \o req.param

-----------------------------------------------------------------------------
(* No handle outlives its handler *)

\* A handler that opens files has returned.
FileHandlerReturned ==
    /\ pc = "idle" /\ resp.kind # "none"
    /\ req.kind \in {"get", "post", "batch"}

\* C35 (handles are closed): when a download, a single-file upload or a
\* batch upload returns, on its success path and on every error path, no
\* file that it opened is still open.
C35_NoHandleLeftOpen ==
    FileHandlerReturned => fp = NULL /\ hist.handles = 0

\* A batch upload has returned after the connection failed while the file of
\* a part was open.
C35_Witness ==
    /\ FileHandlerReturned /\ req.kind = "batch"
    /\ hist.rerr /\ hist.open_at_end
    /\ fp = NULL /\ hist.handles = 0

-----------------------------------------------------------------------------
(* The decoder under any chunking of the body *)

\* The whole body has come, in receives of any sizes, and every write went
\* well.
DeliveredInChunks ==
    Returned("batch") /\ req.closed /\ FullyDelivered /\ ~hist.wfail

\* C36 (chunking independence): however a well-formed body is cut into
\* receives, down to one byte at a time and with timeouts between them, the
\* files list, the count and the stored contents are those of the delivery
\* in a single receive.
C36_AnyChunkingEqualsOneChunk ==
    DeliveredInChunks
        => \E one \in {OneChunk(req, hist.fs0)} :
              /\ resp.files = one.files
              /\ resp.count = one.count
              /\ fs = one.fs
              /\ resp.kind = "json"

\* An upload of two parts has come in three receives or more and both of its
\* files are stored.
C36_Witness ==
    /\ DeliveredInChunks /\ hist.chunks = 3
    /\ Len(req.parts) = 2 /\ resp.count = 2
    /\ fs # hist.fs0

-----------------------------------------------------------------------------
(* start on a server that runs *)

\* The last call was start, made while the server was running.
StartedWhileRunning == hist.call = "start" /\ hist.was[1] # nullptr

\* C37 (second start): start(port) on a running server returns true, starts
\* no second server and leaves the running server and the value of getPort()
\* as they were, also when the port asked for is not the port in use.
C37_SecondStartChangesNothing ==
    StartedWhileRunning
        => /\ resp.message = "true"
           /\ <<_server, _port>> = hist.was
           /\ isRunning

\* start(8080) on the server that runs on port 80.
C37_Witness ==
    /\ StartedWhileRunning
    /\ hist.was[2] = 80 /\ req.port = 8080
    /\ _port = 80 /\ _server = hist.was[1]
    /\ resp.message = "true"

-----------------------------------------------------------------------------
(* AppWifiConfig (src/main/apps/app_usb_file.cpp): the app that starts and *)
(* stops the server                                                        *)

MaxAppCalls == 9

\* What the touch panel reports to a handler: no click, or a click on the
\* back button, a list item, the connect button, a key, the start-server
\* button, the stop-server button, or elsewhere.
Touches == {"none", "back", "item", "connect", "key", "server", "stop", "other"}

\* The handler state of the server, which the app's callbacks leave alone.
AppFrame == <<fs, pc, req, rx, remaining, total_written, fp, accumulated_data,
              current_filename, in_file_content, file_count, json_files,
              resp, sent, rpos>>

\* The framework makes another call, while no handler of the server runs.
AppCalling == pc = "idle" /\ nreq < MaxAppCalls

\* The call is counted and noted with what it found.
AppCalled(call) ==
    /\ nreq' = nreq + 1
    /\ hist' = [hist EXCEPT !.call = call, !.was = <<_server, _port, _state>>]
    /\ UNCHANGED AppFrame

\* A stop that leaves the server as it is.
StopForgotten(server) == server

\* HttpFileServer::stop(): _server afterwards.
AfterStop(server) == IF server # nullptr THEN nullptr ELSE server

\* HttpFileServer::start(port), httpd_start returning ret and the handle h:
\* _server and _port afterwards, and the value returned.
AfterStart(ret, h) ==
    IF AlreadyRunning THEN _server
    ELSE IF ret = "ESP_OK" THEN h ELSE _server
PortAfterStart(port) == IF AlreadyRunning THEN _port ELSE port
StartReturns(ret) == AlreadyRunning \/ ret = "ESP_OK"

\* void AppWifiConfig::onCreate(), of a new instance
onCreate ==
    /\ AppCalling
    /\ app \in {"none", "destroyed"}
    /\ _state' = "STATE_SCANNING"
    /\ _need_destroy' = FALSE
    /\ app' = "open"
    /\ UNCHANGED <<_server, _port>>
    /\ AppCalled("onCreate")

\* void AppWifiConfig::onDestroy()
onDestroy ==
    /\ AppCalling
    /\ app = "open"
    /\ _server' = IF isRunning THEN AfterStop(_server) ELSE _server
    /\ app' = "destroyed"
    /\ UNCHANGED <<_port, _state, _need_destroy>>
    /\ AppCalled("onDestroy")

\* case STATE_SCANNING: the scan has results or not yet.
WhileScanning(scanned) ==
    /\ _state' = IF scanned THEN "STATE_SHOW_LIST" ELSE _state
    /\ UNCHANGED <<_need_destroy, _server, _port>>

\* void AppWifiConfig::handleWifiListTouch()
handleWifiListTouch(touch) ==
    /\ _need_destroy' = IF touch = "back" THEN TRUE ELSE _need_destroy
    /\ _state' = IF touch = "item" THEN "STATE_INPUT_PASSWORD" ELSE _state
    /\ UNCHANGED <<_server, _port>>

\* void AppWifiConfig::handlePasswordInputTouch(), with connectWifi() and
\* what esp_wifi_sta_get_ap_info says after the wait.
handlePasswordInputTouch(touch, joined) ==
    /\ _state' = IF touch = "back" THEN "STATE_SHOW_LIST"
                 ELSE IF touch = "connect"
                 THEN IF joined THEN "STATE_CONNECTED" ELSE "STATE_FAILED"
                 ELSE _state
    /\ UNCHANGED <<_need_destroy, _server, _port>>

\* void AppWifiConfig::handleConnectedTouch()
handleConnectedTouch(touch, ret, h) ==
    IF touch = "server"
    THEN /\ _server' = AfterStart(ret, h)
         /\ _port' = PortAfterStart(80)
         /\ _state' = IF StartReturns(ret) THEN "STATE_SERVER_RUNNING"
                      ELSE _state
         /\ UNCHANGED _need_destroy
    ELSE /\ _need_destroy' = IF touch = "back" THEN TRUE ELSE _need_destroy
         /\ UNCHANGED <<_state, _server, _port>>

\* case STATE_FAILED: any click leaves the app.
WhileFailed(touch) ==
    /\ _need_destroy' = IF touch # "none" THEN TRUE ELSE _need_destroy
    /\ UNCHANGED <<_state, _server, _port>>

\* void AppWifiConfig::handleServerRunningTouch()
handleServerRunningTouch(touch) ==
    IF touch = "stop"
    THEN /\ _server' = AfterStop(_server)
         /\ _state' = "STATE_CONNECTED"
         /\ UNCHANGED <<_need_destroy, _port>>
    ELSE IF touch = "back"
    THEN /\ _server' = AfterStop(_server)
         /\ _need_destroy' = TRUE
         /\ UNCHANGED <<_state, _port>>
    ELSE UNCHANGED <<_state, _need_destroy, _server, _port>>

\* void AppWifiConfig::onRunning(): with _need_destroy it asks the framework
\* to uninstall the app and returns; otherwise the handler of _state runs.
onRunning(touch, scanned, joined, ret, h) ==
    /\ AppCalling
    /\ app = "open"
    /\ IF _need_destroy
       THEN UNCHANGED <<_state, _need_destroy, _server, _port>>
       ELSE CASE _state = "STATE_SCANNING" -> WhileScanning(scanned)
              [] _state = "STATE_SHOW_LIST" -> handleWifiListTouch(touch)
              [] _state = "STATE_INPUT_PASSWORD" ->
                     handlePasswordInputTouch(touch, joined)
              [] _state = "STATE_CONNECTED" ->
                     handleConnectedTouch(touch, ret, h)
              [] _state = "STATE_FAILED" -> WhileFailed(touch)
              [] _state = "STATE_SERVER_RUNNING" ->
                     handleServerRunningTouch(touch)
              [] OTHER -> UNCHANGED <<_state, _need_destroy, _server, _port>>
    /\ UNCHANGED app
    /\ AppCalled("onRunning")

\* The singleton as constructed and no app yet.
InitApp ==
    /\ fs = BareTree
    /\ IdleLocals
    /\ _server = nullptr
    /\ _port = 80
    /\ NoApp

NextApp ==
    \/ onCreate
    \/ \E touch \in Touches, scanned \in BOOLEAN, joined \in BOOLEAN,
          ret \in StartResults, h \in Handles :
            onRunning(touch, scanned, joined, ret, h)
    \/ onDestroy

SpecApp == InitApp /\ [][NextApp]_vars

\* The last call found the app in STATE_SERVER_RUNNING with the server
\* running.
WasServing ==
    /\ hist.call # "none"
    /\ hist.was[1] # nullptr /\ hist.was[3] = "STATE_SERVER_RUNNING"

\* C38 (the app and the server): over any sequence of touches and life-cycle
\* callbacks the server runs only while the app is in STATE_SERVER_RUNNING:
\* it is started only from STATE_CONNECTED, every way out of
\* STATE_SERVER_RUNNING stops it, and after onDestroy it does not run.
C38_ServerOnlyInServerRunning ==
    /\ isRunning => app = "open" /\ _state = "STATE_SERVER_RUNNING"
    /\ (hist.call # "none" /\ hist.was[1] = nullptr /\ isRunning)
            => hist.call = "onRunning" /\ hist.was[3] = "STATE_CONNECTED"
    /\ (WasServing /\ (_state # "STATE_SERVER_RUNNING" \/ _need_destroy))
            => ~isRunning
    /\ app = "destroyed" => ~isRunning

\* The app was destroyed while the server ran, and the server has stopped.
C38_Witness ==
    /\ WasServing /\ hist.call = "onDestroy"
    /\ app = "destroyed" /\ _state = "STATE_SERVER_RUNNING"
    /\ ~isRunning

=============================================================================
